---- MODULE Spec2Model ----
(***************************************************************************)
(* A model of the coin-payments core:                                      *)
(*   - BitcoinishPayments.buildPaymentTx (coin selection, fee estimation,  *)
(*     change splitting), the create...Transaction methods that call it,   *)
(*     and BitcoinishPayments.broadcastTransaction,                        *)
(*   - RippleBalanceMonitor.retrieveBalanceActivities (ledger-window       *)
(*     pagination and activity sequencing), subscribeAddresses and         *)
(*     onBalanceActivity.                                                  *)
(*                                                                         *)
(* Each specification of the module (SpecBuild, SpecCreate, SpecBroadcast, *)
(* SpecScan, SpecSubscribe, SpecLive) drives one operation and keeps the   *)
(* variables of the others at their idle values.                           *)
(*                                                                         *)
(* Conventions.  A JavaScript object is a record; a property that is       *)
(* undefined is a field that is absent from the record's DOMAIN.  A decimal*)
(* string ("0.0001", "1.5") is a record [digits, scale] that stands for    *)
(* digits * 10^-scale; a JavaScript Number that need not be an integer (a  *)
(* fee before Math.ceil) is an IEEE-754 double [m, e].                     *)
(***************************************************************************)
EXTENDS Integers, Sequences, FiniteSets, TLC

VARIABLES
  payments,    \* the BitcoinishPayments instance: its configuration fields
  params,      \* the argument of the buildPaymentTx call
  paymentTx,   \* the buildPaymentTx call: where it waits, then its plan or its error
  created,     \* the create...Transaction call: its arguments, its position, its outcome
  signedTx,    \* the argument of the broadcastTransaction call
  node,        \* what the node's sendTx answered to the broadcast
  broadcast,   \* what the broadcastTransaction call produced
  monitor,     \* the RippleBalanceMonitor instance: the fields its methods read
  rippleServer,\* the ripple server: its complete ledgers and the account's history
  scan,        \* the retrieveBalanceActivities call: its locals and its position
  requests,    \* the options of the getTransactions requests made so far
  sink,        \* the activities passed to callbackFn so far
  subscription,\* the subscribeAddresses call: its argument, request, answer and log
  live         \* the onBalanceActivity registration: events, handlers, callbackFn calls

buildVars == <<payments, params, paymentTx, created>>
broadcastVars == <<signedTx, node, broadcast>>
scanVars == <<rippleServer, scan, requests, sink>>
subscribeVars == <<subscription>>
liveVars == <<live>>
monitorVars == <<monitor>>
vars == <<payments, params, paymentTx, created, signedTx, node, broadcast, monitor, rippleServer, scan, requests, sink, subscription, live>>

(***************************************************************************)
(* Bounds of the model.                                                    *)
(***************************************************************************)
MaxUtxos == 2      \* longest unusedUtxos list
MaxOutputs == 2    \* longest desiredOutputs list

(***************************************************************************)
(* Generic helpers.                                                        *)
(***************************************************************************)
isUndefined(obj, field) == field \notin DOMAIN obj

RECURSIVE Pow10(_)
Pow10(k) == IF k = 0 THEN 1 ELSE 10 * Pow10(k - 1)

Pow2(k) == 2 ^ k

RECURSIVE SumSeq(_)
SumSeq(s) == IF s = <<>> THEN 0 ELSE Head(s) + SumSeq(Tail(s))

SeqsUpTo(S, n) == UNION {[1..k -> S] : k \in 0..n}

(***************************************************************************)
(* JavaScript Numbers.  A Number is an IEEE-754 double: the record         *)
(* [m, e] stands for m * 2^e, where the significand m is a natural number  *)
(* below 2^53 that is odd (or zero, with e = 0), kept as a little-endian   *)
(* sequence of limbs in base 2^15 because it does not fit TLC's 32-bit     *)
(* integers.  Every operation computes the exact result and rounds it to   *)
(* 53 significant bits, ties to even, as the hardware does.  The values of *)
(* the model stay far inside the exponent range, so that subnormals and    *)
(* infinities never arise.                                                 *)
(***************************************************************************)
LimbBase == 32768
LimbBits == 15

RECURSIVE BigStrip(_)
BigStrip(b) ==
  IF b # <<>> /\ b[Len(b)] = 0 THEN BigStrip(SubSeq(b, 1, Len(b) - 1)) ELSE b

RECURSIVE BigFromInt(_)
BigFromInt(i) == IF i = 0 THEN <<>> ELSE <<i % LimbBase>> \o BigFromInt(i \div LimbBase)

RECURSIVE BigToInt(_)
BigToInt(b) == IF b = <<>> THEN 0 ELSE Head(b) + LimbBase * BigToInt(Tail(b))

\* b * k + carry, for 0 <= k < 2^15
RECURSIVE BigMulSmallFrom(_, _, _)
BigMulSmallFrom(b, k, carry) ==
  IF b = <<>> THEN BigFromInt(carry)
  ELSE <<(Head(b) * k + carry) % LimbBase>>
         \o BigMulSmallFrom(Tail(b), k, (Head(b) * k + carry) \div LimbBase)

BigMulSmall(b, k) == BigStrip(BigMulSmallFrom(b, k, 0))
BigAddSmall(b, k) == BigMulSmallFrom(b, 1, k)

\* b \div k and b % k, for 0 < k < 2^15: long division from the top limb down
RECURSIVE BigDivSmallFrom(_, _, _)
BigDivSmallFrom(b, k, i) ==
  IF i > Len(b) THEN [q |-> <<>>, r |-> 0]
  ELSE LET above == BigDivSmallFrom(b, k, i + 1)
       IN  [q |-> <<(above.r * LimbBase + b[i]) \div k>> \o above.q,
            r |-> (above.r * LimbBase + b[i]) % k]

StrippedQuotient(res) == [q |-> BigStrip(res.q), r |-> res.r]
BigDivSmall(b, k) == StrippedQuotient(BigDivSmallFrom(b, k, 1))

RECURSIVE IntBitLen(_)
IntBitLen(i) == IF i = 0 THEN 0 ELSE 1 + IntBitLen(i \div 2)

BigBitLen(b) == IF b = <<>> THEN 0 ELSE LimbBits * (Len(b) - 1) + IntBitLen(b[Len(b)])
BigIsOdd(b) == b # <<>> /\ b[1] % 2 = 1

\* b * 2^k
BigShl(b, k) ==
  IF b = <<>> THEN <<>>
  ELSE BigMulSmall([i \in 1..(k \div LimbBits) |-> 0] \o b, Pow2(k % LimbBits))

\* b \div 2^k, and whether a non-zero bit was shifted out
WithSticky(res, lostLimb) == [q |-> res.q, sticky |-> lostLimb \/ res.r # 0]
BigShr(b, k) ==
  WithSticky(BigDivSmall(IF k \div LimbBits >= Len(b) THEN <<>>
                         ELSE SubSeq(b, k \div LimbBits + 1, Len(b)),
                         Pow2(k % LimbBits)),
             \E i \in 1..Len(b) : i <= k \div LimbBits /\ b[i] # 0)

RECURSIVE BigLtFrom(_, _, _)
BigLtFrom(a, b, i) ==
  IF i = 0 THEN FALSE
  ELSE IF a[i] # b[i] THEN a[i] < b[i]
  ELSE BigLtFrom(a, b, i - 1)

BigLt(a, b) == IF Len(a) # Len(b) THEN Len(a) < Len(b) ELSE BigLtFrom(a, b, Len(a))

\* The canonical record of i * 2^e for an integer i below 2^31: the significand
\* is made odd
RECURSIVE OddPart(_, _)
OddPart(i, e) ==
  IF i = 0 THEN [m |-> <<>>, e |-> 0]
  ELSE IF i % 2 = 0 THEN OddPart(i \div 2, e + 1)
  ELSE [m |-> BigFromInt(i), e |-> e]

\* The canonical record of m * 2^e; a significand of one or two limbs is
\* handled as an integer
RECURSIVE NormalizeDouble(_, _)
NormalizeDouble(m, e) ==
  IF Len(m) <= 2 THEN OddPart(BigToInt(m), e)
  ELSE IF m[1] = 0 THEN NormalizeDouble(Tail(m), e + LimbBits)
  ELSE IF m[1] % 2 = 0 THEN NormalizeDouble(BigDivSmall(m, 2).q, e + 1)
  ELSE [m |-> m, e |-> e]

\* A Number whose significand is below 2^15, and that significand
SmallNumber(x) == Len(x.m) <= 1
Significand(x) == IF x.m = <<>> THEN 0 ELSE x.m[1]

\* The double nearest to (m + f) * 2^e, where 0 <= f < 1 and f > 0 iff sticky;
\* ties go to the even significand.  A sticky m must have at least 55 bits.
\* Of the bits of m the top 53 are kept (q); guard is the first bit dropped.
\* The result is a record [m, e] that NumberProduct makes canonical.
RoundHalfEven(q, guard, sticky, e) ==
  [m |-> IF guard /\ (sticky \/ BigIsOdd(q)) THEN BigAddSmall(q, 1) ELSE q, e |-> e]

RoundUpper(upper, sticky, e) ==
  RoundHalfEven(BigDivSmall(upper.q, 2).q, BigIsOdd(upper.q), sticky \/ upper.sticky, e)

RoundBits(m, e, sticky, drop) ==
  IF drop <= 0 THEN [m |-> m, e |-> e]
  ELSE RoundUpper(BigShr(m, drop - 1), sticky, e + drop)

RoundToDouble(m, e, sticky) ==
  IF Len(m) <= 3 THEN [m |-> m, e |-> e] ELSE RoundBits(m, e, sticky, BigBitLen(m) - 53)

\* An integer as a Number
NumberOf(i) == OddPart(i, 0)

\* a < b on Numbers that are not negative, compared at the exponent e of the
\* smaller unit
NumberLtAt(a, b, e) ==
  IF SmallNumber(a) /\ SmallNumber(b) /\ a.e - e <= LimbBits /\ b.e - e <= LimbBits
    THEN Significand(a) * Pow2(a.e - e) < Significand(b) * Pow2(b.e - e)
    ELSE BigLt(BigShl(a.m, a.e - e), BigShl(b.m, b.e - e))

NumberLt(a, b) == NumberLtAt(a, b, IF a.e < b.e THEN a.e ELSE b.e)

\* a * k for a Number a and an integer 0 <= k < 2^15: one rounding of the exact product
NumberProduct(product) == NormalizeDouble(product.m, product.e)
NumberTimes(a, k) ==
  IF SmallNumber(a) THEN OddPart(Significand(a) * k, a.e)
  ELSE NumberProduct(RoundToDouble(BigMulSmall(a.m, k), a.e, FALSE))

\* i / k for integers i >= 0 and 0 < k < 2^15: one rounding of the exact quotient
RoundQuotient(scaled, e) == NumberProduct(RoundToDouble(scaled.q, e, scaled.r # 0))
NumberQuotient(i, k) ==
  IF i % k = 0 THEN NumberOf(i \div k)
  ELSE RoundQuotient(BigDivSmall(BigShl(BigFromInt(i), 75), k), -75)

\* Math.ceil of a Number that is not negative
CeilOf(whole) == BigToInt(whole.q) + (IF whole.sticky THEN 1 ELSE 0)
MathCeil(x) ==
  IF SmallNumber(x) /\ x.e >= 0 /\ x.e <= LimbBits THEN Significand(x) * Pow2(x.e)
  ELSE IF SmallNumber(x) /\ x.e < 0 /\ x.e >= -LimbBits
    THEN -((-Significand(x)) \div Pow2(-x.e))
  ELSE IF x.e >= 0 THEN BigToInt(BigShl(x.m, x.e))
  ELSE CeilOf(BigShr(x.m, -x.e))

(***************************************************************************)
(* Denomination arithmetic (createUnitConverters of payments-common, whose *)
(* source is not part of the repository snapshot; spec section 4.1).       *)
(***************************************************************************)
decimals == 8

\* A decimal string without trailing zeros in its fraction, as BigNumber prints it
RECURSIVE Normalize(_)
Normalize(dec) ==
  IF dec.scale > 0 /\ dec.digits % 10 = 0
    THEN Normalize([digits |-> dec.digits \div 10, scale |-> dec.scale - 1])
    ELSE dec

\* main-denomination decimal string -> base units: times 10^decimals, floored
toBaseDenominationNumber(main) ==
  IF main.scale <= decimals
    THEN main.digits * Pow10(decimals - main.scale)
    ELSE main.digits \div Pow10(main.scale - decimals)

\* base units -> main-denomination decimal string
toMainDenominationString(base) == Normalize([digits |-> base, scale |-> decimals])

\* b \div 10^scale, and whether a division left a remainder
RECURSIVE ScaledDecimal(_, _, _)
ScaledDecimal(b, scale, sticky) ==
  IF scale = 0 THEN [q |-> b, r |-> IF sticky THEN 1 ELSE 0]
  ELSE LET res == BigDivSmallFrom(b, 10, 1)
       IN  ScaledDecimal(BigStrip(res.q), scale - 1, sticky \/ res.r # 0)

\* Number.parseFloat of a decimal string: the double nearest to its value.
\* digits / 10^scale = (digits / 5^scale) / 2^scale is a double itself when
\* 5^scale divides the digits; otherwise digits * 2^k \div 10^scale is rounded,
\* for a k that leaves more than 55 bits
parseFloat(dec) ==
  IF dec.scale = 0 THEN NumberOf(dec.digits)
  ELSE IF dec.scale <= 13 /\ dec.digits % (5 ^ dec.scale) = 0
    THEN OddPart(dec.digits \div (5 ^ dec.scale), -dec.scale)
  ELSE RoundQuotient(ScaledDecimal(BigShl(BigFromInt(dec.digits), 64 + 4 * dec.scale),
                                   dec.scale, FALSE),
                     -(64 + 4 * dec.scale))

(***************************************************************************)
(* The instance's configuration (constructor, lines 49-62).                *)
(***************************************************************************)
dustThreshold == payments.dustThreshold
networkMinRelayFee == payments.networkMinRelayFee
targetUtxoPoolSize == payments.targetUtxoPoolSize
minChangeSat == payments.minChangeSat

ValidAddresses == {"A", "B", "C"}
isValidAddress(address) == address \in ValidAddresses

\* utils.isConfirmedUtxo: a UTXO is confirmed iff its height is a positive integer
isConfirmedUtxo(utxo) == ~isUndefined(utxo, "height") /\ utxo.height > 0

\* utils.sortUtxos: confirmed before unconfirmed, then by descending value,
\* ties broken by (txid, vout) ascending
utxoBefore(a, b) ==
  LET ca == isConfirmedUtxo(a)
      cb == isConfirmedUtxo(b)
  IN  IF ca # cb THEN ca
      ELSE IF a.satoshis # b.satoshis THEN a.satoshis > b.satoshis
      ELSE IF a.txid # b.txid THEN a.txid < b.txid
      ELSE a.vout < b.vout

sortUtxos(utxos) == SortSeq(utxos, utxoBefore)

(***************************************************************************)
(* Fee estimation (lines 182-232).                                         *)
(***************************************************************************)
estimateTxSize(inputCount, changeOutputCount, externalOutputAddresses) ==
  10 + 148 * inputCount + 34 * (changeOutputCount + Len(externalOutputAddresses))

\* The fee a rate asks for a transaction shape, before rounding: a Number
feeRateToSatoshis(rate, inputCount, changeOutputCount, externalOutputAddresses) ==
  IF rate.feeRateType = "BasePerWeight" THEN
    NumberTimes(parseFloat(rate.feeRate),
                estimateTxSize(inputCount, changeOutputCount, externalOutputAddresses))
  ELSE IF rate.feeRateType = "Main" THEN
    NumberOf(toBaseDenominationNumber(rate.feeRate))
  ELSE
    parseFloat(rate.feeRate)

\* lines 214-220: raise the fee to the configured minTxFee, if there is one
clampToMinTxFee(feeSat, inputCount, changeOutputCount, externalOutputAddresses) ==
  IF ~isUndefined(payments, "minTxFee") THEN
    LET minTxFeeSat == feeRateToSatoshis(payments.minTxFee, inputCount,
                                         changeOutputCount, externalOutputAddresses)
    IN  IF NumberLt(feeSat, minTxFeeSat) THEN minTxFeeSat ELSE feeSat
  ELSE feeSat

\* lines 222-225: raise the fee to the network's relay minimum
clampToRelayFee(feeSat) ==
  IF NumberLt(feeSat, NumberOf(networkMinRelayFee)) THEN NumberOf(networkMinRelayFee)
  ELSE feeSat

estimateTxFee(targetRate, inputCount, changeOutputCount, externalOutputAddresses) ==
  LET feeSat == feeRateToSatoshis(targetRate, inputCount, changeOutputCount,
                                  externalOutputAddresses)
      aboveMin == clampToMinTxFee(feeSat, inputCount, changeOutputCount,
                                  externalOutputAddresses)
  IN  MathCeil(clampToRelayFee(aboveMin))

determineTargetChangeOutputCount(unusedUtxoCount, inputUtxoCount) ==
  LET remainingUtxoCount == unusedUtxoCount - inputUtxoCount
  IN  IF remainingUtxoCount < targetUtxoPoolSize
        THEN targetUtxoPoolSize - remainingUtxoCount
        ELSE 1

(***************************************************************************)
(* selectInputUtxos (lines 246-315).                                       *)
(***************************************************************************)
\* A filter that lets every candidate through (mutant of passesUnconfirmedFilter)
passesUnconfirmedFilter_Everything(utxo, useUnconfirmedUtxos) == TRUE

\* line 258: whether a candidate survives the unconfirmed filter
passesUnconfirmedFilter(utxo, useUnconfirmedUtxos) ==
  ~(~useUnconfirmedUtxos /\ ~isConfirmedUtxo(utxo))

\* lines 261-263: a candidate with its value in base units
withSatoshis(utxo) ==
  IF isUndefined(utxo, "satoshis")
    THEN utxo @@ [satoshis |-> toBaseDenominationNumber(utxo.value)]
    ELSE utxo

\* lines 255-269: the candidates that survive the filter, in the caller's order
filterUtxos(unusedUtxos, useUnconfirmedUtxos) ==
  LET keep(u) == passesUnconfirmedFilter(u, useUnconfirmedUtxos)
      kept == SelectSeq(unusedUtxos, keep)
  IN  [i \in 1..Len(kept) |-> withSatoshis(kept[i])]

sumSatoshis(utxos) == SumSeq([i \in 1..Len(utxos) |-> utxos[i].satoshis])

\* lines 279-293: the first candidate, in the caller's order, that pays the
\* outputs and the single-input fee and leaves at most dust; 0 when none does
RECURSIVE findIdealUtxo(_, _, _, _)
\* The last such candidate instead of the first (mutant of findIdealUtxo)
findIdealUtxo_Last(utxos, i, idealSolutionMinSat, idealSolutionMaxSat) ==
  LET ideal == {k \in i..Len(utxos) : utxos[k].satoshis >= idealSolutionMinSat /\ utxos[k].satoshis <= idealSolutionMaxSat}
  IN  IF ideal = {} THEN 0 ELSE CHOOSE k \in ideal : \A j \in ideal : j <= k

findIdealUtxo(utxos, i, idealSolutionMinSat, idealSolutionMaxSat) ==
  IF i > Len(utxos) THEN 0
  ELSE IF utxos[i].satoshis >= idealSolutionMinSat /\ utxos[i].satoshis <= idealSolutionMaxSat
    THEN i
  ELSE findIdealUtxo(utxos, i + 1, idealSolutionMinSat, idealSolutionMaxSat)

\* lines 296-313: add the sorted candidates one at a time until they cover the
\* outputs and the fee for the shape reached
RECURSIVE accumulateUtxos(_, _, _, _, _, _, _, _)
accumulateUtxos(sortedUtxos, i, selectedUtxos, selectedTotalSat, feeSat, unusedUtxoCount, outputTotal, shape) ==
  IF i > Len(sortedUtxos) THEN
    [selectedUtxos |-> selectedUtxos, selectedTotalSat |-> selectedTotalSat, feeSat |-> feeSat]
  ELSE
    LET selected == Append(selectedUtxos, sortedUtxos[i])
        total == selectedTotalSat + sortedUtxos[i].satoshis
        targetChangeOutputCount == determineTargetChangeOutputCount(unusedUtxoCount, Len(selected))
        fee == estimateTxFee(shape.feeRate, Len(selected), targetChangeOutputCount,
                             shape.outputAddresses)
    IN  IF total >= outputTotal + fee
          THEN [selectedUtxos |-> selected, selectedTotalSat |-> total, feeSat |-> fee]
          ELSE accumulateUtxos(sortedUtxos, i + 1, selected, total, fee,
                               unusedUtxoCount, outputTotal, shape)

selectInputUtxos(unusedUtxos, outputTotal, outputAddresses, feeRate, useAllUtxos, useUnconfirmedUtxos) ==
  LET utxos == filterUtxos(unusedUtxos, useUnconfirmedUtxos)
      utxosTotalSat == sumSatoshis(utxos)
  IN  IF useAllUtxos THEN
        [selectedUtxos |-> utxos,
         selectedTotalSat |-> utxosTotalSat,
         feeSat |-> estimateTxFee(feeRate, Len(utxos), 0, outputAddresses)]
      ELSE
        LET idealSolutionFeeSat == estimateTxFee(feeRate, 1, 0, outputAddresses)
            idealSolutionMinSat == outputTotal + idealSolutionFeeSat
            idealSolutionMaxSat == idealSolutionMinSat + dustThreshold
            ideal == findIdealUtxo(utxos, 1, idealSolutionMinSat, idealSolutionMaxSat)
        IN  IF ideal # 0 THEN
              [selectedUtxos |-> <<utxos[ideal]>>,
               selectedTotalSat |-> utxos[ideal].satoshis,
               feeSat |-> idealSolutionFeeSat]
            ELSE
              accumulateUtxos(sortUtxos(utxos), 1, <<>>, 0, 0, Len(unusedUtxos), outputTotal,
                              [feeRate |-> feeRate, outputAddresses |-> outputAddresses])

(***************************************************************************)
(* buildPaymentTx (lines 324-479).  The call's outcome is a record whose   *)
(* status is "plan" (the returned BitcoinishPaymentTx) or "error" (the     *)
(* call threw; error names which throw).                                   *)
(***************************************************************************)
Failure(kind) == [status |-> "error", error |-> kind]

\* lines 341-343 and 357: the call runs to its next await.  With an output left
\* it has read that output (line 342) and waits for isValidAddress of its
\* address (line 344); with none left it waits for isValidAddress of the
\* change address (line 357).  externalOutputs are the outputs converted so far.
awaitNextAddress(desiredOutputs, externalOutputs) ==
  LET i == Len(externalOutputs) + 1
  IN  IF i <= Len(desiredOutputs)
        THEN [status |-> "pending", awaits |-> "outputAddress", output |-> desiredOutputs[i],
              externalOutputs |-> externalOutputs]
        ELSE [status |-> "pending", awaits |-> "changeAddress",
              externalOutputs |-> externalOutputs]

\* lines 344-355: one turn of the loop after isValidAddress has answered: the
\* output that was read is validated, converted to base units and pushed
convertDesiredOutput(output, externalOutputs) ==
  LET address == output.address
      satoshis == toBaseDenominationNumber(output.value)
  IN  IF ~isValidAddress(address) THEN [error |-> "InvalidAddress", externalOutputs |-> <<>>]
      ELSE IF satoshis <= 0 THEN [error |-> "InvalidAmount", externalOutputs |-> <<>>]
      ELSE [error |-> "none",
            externalOutputs |-> Append(externalOutputs, [address |-> address, satoshis |-> satoshis])]

sumOutputs(outputs) == SumSeq([i \in 1..Len(outputs) |-> outputs[i].satoshis])

\* line 174: outputs in the external format, values as main-denomination strings
convertOutputsToExternalFormat(outputs) ==
  [i \in 1..Len(outputs) |->
     [address |-> outputs[i].address, value |-> toMainDenominationString(outputs[i].satoshis)]]

\* No shortfall is ever seen (mutant of isShortfall)
isShortfall_Never(externalOutputTotal, feeSat, inputTotal) == FALSE

\* line 373: the selected inputs do not pay the outputs and the fee
isShortfall(externalOutputTotal, feeSat, inputTotal) == externalOutputTotal + feeSat > inputTotal

\* A test that also takes outputs above the input total for a whole-balance send
\* (mutant of isSendingEntireBalance)
isSendingEntireBalance_AtLeast(externalOutputTotal, inputTotal) == externalOutputTotal >= inputTotal

\* line 374: the caller asked to send the whole input total
isSendingEntireBalance(externalOutputTotal, inputTotal) == externalOutputTotal = inputTotal

\* A fee share rounded down (mutant of feeSharePerOutput)
feeSharePerOutput_Floor(feeSat, outputCount) == feeSat \div outputCount

\* line 376: Math.ceil(feeSat / externalOutputs.length), for at least one output
feeSharePerOutput(feeSat, outputCount) == MathCeil(NumberQuotient(feeSat, outputCount))

\* line 385: an external output the fee share has reduced to dust
isDustAfterFeeShare(satoshis) == satoshis <= dustThreshold

\* lines 382-391: take the fee share off every external output
subtractFeeShare(externalOutputs, feeShare) ==
  LET reduced == [i \in 1..Len(externalOutputs) |->
                    [address |-> externalOutputs[i].address,
                     satoshis |-> externalOutputs[i].satoshis - feeShare]]
  IN  IF \E i \in 1..Len(reduced) : isDustAfterFeeShare(reduced[i].satoshis)
        THEN [error |-> "DustOutput", externalOutputs |-> <<>>]
        ELSE [error |-> "none", externalOutputs |-> reduced]

\* lines 485-494: change outputs with exponentially growing weights
createWeightedChangeOutputs(changeOutputCount, changeAddress) ==
  [i \in 1..changeOutputCount |-> [address |-> changeAddress, weight |-> Pow2(i - 1)]]

\* line 417: Math.floor(totalChangeSat * (weight / totalChangeWeight)).  With the
\* weights 2^i and the total weight 2^k - 1 the double product floors to the
\* exact quotient for every amount below 10^14 base units, which covers the
\* amounts of the model.
changeShare(totalChangeSat, weight, totalChangeWeight) ==
  (totalChangeSat * weight) \div totalChangeWeight

\* line 418: a change share that is not emitted
isDroppedChange(changeSat) == changeSat <= dustThreshold \/ changeSat < minChangeSat

\* lines 414-427: the change shares that are emitted, in weight order
allocateChange(totalChangeSat, changeOutputWeights) ==
  LET totalChangeWeight == SumSeq([i \in 1..Len(changeOutputWeights) |-> changeOutputWeights[i].weight])
      shares == [i \in 1..Len(changeOutputWeights) |->
                   [address |-> changeOutputWeights[i].address,
                    satoshis |-> changeShare(totalChangeSat, changeOutputWeights[i].weight,
                                             totalChangeWeight)]]
      kept(o) == ~isDroppedChange(o.satoshis)
  IN  SelectSeq(shares, kept)

\* line 448: enough loose change to give every change output at least one more unit
canRedistribute(looseChange, changeOutputCount) ==
  changeOutputCount > 0 /\ looseChange > changeOutputCount

\* line 456: loose change that becomes the only change output
isLooseChangeOutput(looseChange, changeOutputCount) ==
  changeOutputCount = 0 /\ looseChange > dustThreshold

\* A fee that forgets the loose change (mutant of absorbLooseChange)
absorbLooseChange_Lost(feeSat, looseChange) == feeSat

\* line 461: what is left of the loose change is paid as fee
absorbLooseChange(feeSat, looseChange) == feeSat + looseChange

\* lines 430-462: settle the fee for the shape the change outputs give the
\* transaction, and hand the loose change to the change outputs or to the fee
reconcileLooseChange(changeOutputs, totalChangeSat, feeSat, recalculatedFee, changeAddress) ==
  LET totalChangeAllocated == sumOutputs(changeOutputs)
      overpayingAmount == IF feeSat > recalculatedFee THEN feeSat - recalculatedFee ELSE 0
      fee1 == feeSat - overpayingAmount
      total1 == totalChangeSat + overpayingAmount
      loose1 == totalChangeSat - totalChangeAllocated + overpayingAmount
      n == Len(changeOutputs)
  IN  IF loose1 < 0 THEN [error |-> "NegativeLooseChange"]
      ELSE IF canRedistribute(loose1, n) THEN
        LET extraSatPerChangeOutput == loose1 \div n
            loose2 == loose1 - extraSatPerChangeOutput * n
        IN  [error |-> "none",
             changeOutputs |-> [i \in 1..n |->
                [address |-> changeOutputs[i].address,
                 satoshis |-> changeOutputs[i].satoshis + extraSatPerChangeOutput]],
             feeSat |-> absorbLooseChange(fee1, loose2),
             totalChangeSat |-> total1 - loose2]
      ELSE IF isLooseChangeOutput(loose1, n) THEN
        [error |-> "none",
         changeOutputs |-> <<[address |-> changeAddress, satoshis |-> loose1]>>,
         feeSat |-> absorbLooseChange(fee1, 0),
         totalChangeSat |-> total1]
      ELSE
        [error |-> "none",
         changeOutputs |-> changeOutputs,
         feeSat |-> absorbLooseChange(fee1, loose1),
         totalChangeSat |-> total1 - loose1]

\* lines 401-479: change handling and the returned plan
buildPlan(p, inputUtxos, inputTotal, externalOutputs, externalOutputTotal, feeSat) ==
  LET totalChangeSat == inputTotal - externalOutputTotal - feeSat
      externalOutputAddresses == [i \in 1..Len(externalOutputs) |-> externalOutputs[i].address]
      targetChangeOutputCount ==
        determineTargetChangeOutputCount(Len(p.unusedUtxos), Len(inputUtxos))
      changeOutputWeights == createWeightedChangeOutputs(targetChangeOutputCount, p.changeAddress)
      allocated == allocateChange(totalChangeSat, changeOutputWeights)
      recalculatedFee ==
        estimateTxFee(p.desiredFeeRate, Len(inputUtxos),
                      IF Len(allocated) = 0 THEN 1 ELSE Len(allocated), externalOutputAddresses)
      settled == reconcileLooseChange(allocated, totalChangeSat, feeSat, recalculatedFee,
                                      p.changeAddress)
  IN  IF totalChangeSat < 0 THEN Failure("NegativeTotalChange")
      ELSE IF settled.error # "none" THEN Failure(settled.error)
      ELSE
        LET externalOutputsResult == convertOutputsToExternalFormat(externalOutputs)
            changeOutputsResult == convertOutputsToExternalFormat(settled.changeOutputs)
        IN  [status |-> "plan",
             inputs |-> inputUtxos,
             outputs |-> externalOutputsResult \o changeOutputsResult,
             fee |-> toMainDenominationString(settled.feeSat),
             change |-> toMainDenominationString(settled.totalChangeSat),
             changeAddress |-> IF Len(settled.changeOutputs) = 1
                                 THEN settled.changeOutputs[1].address ELSE "null",
             changeOutputs |-> changeOutputsResult,
             externalOutputs |-> externalOutputsResult,
             externalOutputTotal |-> toMainDenominationString(externalOutputTotal),
             rawHex |-> "",
             rawHash |-> ""]

\* lines 372-399: insufficient inputs, or the whole balance sent with the fee
\* taken off the outputs.  With no external output the fee share is
\* Math.ceil(fee / 0) = Infinity and the fee Infinity * 0 = NaN; every later
\* comparison with NaN is false, NaN change outputs are pushed, and the
\* conversion of NaN to the main denomination throws.
settleShortfall(p, selection, externalOutputs, externalOutputTotal) ==
  LET inputTotal == selection.selectedTotalSat
      feeSat == selection.feeSat
  IN  IF ~isShortfall(externalOutputTotal, feeSat, inputTotal) THEN
        buildPlan(p, selection.selectedUtxos, inputTotal, externalOutputs, externalOutputTotal, feeSat)
      ELSE IF ~isSendingEntireBalance(externalOutputTotal, inputTotal) THEN
        Failure("InsufficientFunds")
      ELSE IF Len(externalOutputs) = 0 THEN
        Failure("NotANumber")
      ELSE
        LET feeShare == feeSharePerOutput(feeSat, Len(externalOutputs))
            sweepFee == feeShare * Len(externalOutputs)
            reduced == subtractFeeShare(externalOutputs, feeShare)
        IN  IF reduced.error # "none" THEN Failure(reduced.error)
            ELSE buildPlan(p, selection.selectedUtxos, inputTotal, reduced.externalOutputs,
                           externalOutputTotal - sweepFee, sweepFee)

useAllUtxosOf(p) == IF isUndefined(p, "useAllUtxos") THEN FALSE ELSE p.useAllUtxos
useUnconfirmedUtxosOf(p) ==
  IF isUndefined(p, "useUnconfirmedUtxos") THEN FALSE ELSE p.useUnconfirmedUtxos

\* lines 361-370: the selection buildPaymentTx asks for
selectionFor(p, externalOutputs) ==
  selectInputUtxos(p.unusedUtxos, sumOutputs(externalOutputs),
                   [i \in 1..Len(externalOutputs) |-> externalOutputs[i].address],
                   p.desiredFeeRate, useAllUtxosOf(p), useUnconfirmedUtxosOf(p))

\* lines 357-479: what the call does once isValidAddress of the change address
\* has answered: everything from the selection to the returned plan runs
\* without another await
buildPaymentTx(p, externalOutputs) ==
  IF ~isValidAddress(p.changeAddress) THEN Failure("InvalidChangeAddress")
  ELSE settleShortfall(p, selectionFor(p, externalOutputs), externalOutputs,
                       sumOutputs(externalOutputs))

(***************************************************************************)
(* The inputs the build specification draws from.                          *)
(***************************************************************************)
Dec(digits, scale) == [digits |-> digits, scale |-> scale]

\* Two instances: the defaults (pool of one, no minimum change, no minTxFee),
\* and one that keeps a pool of three, a minimum change above dust and a
\* minimum fee rate.
PaymentsConfigs ==
  { [dustThreshold |-> 546, networkMinRelayFee |-> 1000, targetUtxoPoolSize |-> 1,
     minChangeSat |-> 0],
    [dustThreshold |-> 546, networkMinRelayFee |-> 1000, targetUtxoPoolSize |-> 3,
     minChangeSat |-> 1000,
     minTxFee |-> [feeRate |-> Dec(5, 0), feeRateType |-> "BasePerWeight"]] }

\* "10" and "4.75" per vbyte, and a flat "0.000025" in the main denomination
FeeRates ==
  { [feeRate |-> Dec(10, 0), feeRateType |-> "BasePerWeight"],
    [feeRate |-> Dec(475, 2), feeRateType |-> "BasePerWeight"],
    [feeRate |-> Dec(25, 6), feeRateType |-> "Main"] }

\* Candidate UTXOs: a dust-sized one, one that pays 8000 and the single-input
\* fee with less than dust left, one that leaves a few hundred units of
\* change, one that leaves thousands; confirmed (a height), and two of them
\* also unconfirmed (no height).  The third carries only its main-denomination
\* value, as a caller's own UTXO may.
UtxoChoices ==
  LET confirmed(u) == u @@ [height |-> 5]
      plain == { [value |-> Dec(5, 6), satoshis |-> 500],
                 [value |-> Dec(1, 4), satoshis |-> 10000],
                 [value |-> Dec(11, 5)],
                 [value |-> Dec(16, 5), satoshis |-> 16000] }
  IN  {confirmed(u) : u \in plain} \cup {u \in plain : toBaseDenominationNumber(u.value) \in {10000, 16000}}

withOutpoints(s) == [i \in 1..Len(s) |-> s[i] @@ [txid |-> i, vout |-> 0]]

\* The UTXOs that reach the caller's array while a call waits: the largest
\* confirmed candidate and the smaller unconfirmed one
ArrivingUtxos ==
  {u \in UtxoChoices : IF isUndefined(u, "height") THEN u.satoshis = 10000
                                                   ELSE toBaseDenominationNumber(u.value) = 16000}

UtxoLists == {withOutpoints(s) : s \in SeqsUpTo(UtxoChoices, MaxUtxos)}

\* Desired outputs: 8000 and 10000
OutputChoices ==
  { [address |-> "A", value |-> Dec(8, 5)],
    [address |-> "B", value |-> Dec(1, 4)] }

\* Output lists that ask for a dust-sized amount, alone or after another output
DustOutputLists ==
  { <<[address |-> "A", value |-> Dec(5, 6)]>>,
    <<[address |-> "A", value |-> Dec(8, 5)], [address |-> "A", value |-> Dec(5, 6)]>> }

\* Output lists that do not pass validation: a zero amount, first or after a
\* valid output, and an address that is not valid
InvalidOutputLists ==
  { <<[address |-> "A", value |-> Dec(0, 0)]>>,
    <<[address |-> "A", value |-> Dec(8, 5)], [address |-> "B", value |-> Dec(0, 0)]>>,
    <<[address |-> "X", value |-> Dec(8, 5)]>> }

OutputLists == SeqsUpTo(OutputChoices, MaxOutputs) \cup DustOutputLists \cup InvalidOutputLists

\* useAllUtxos and useUnconfirmedUtxos, each given or left undefined
FlagChoices ==
  { <<>>,
    [useAllUtxos |-> TRUE],
    [useAllUtxos |-> FALSE, useUnconfirmedUtxos |-> TRUE],
    [useAllUtxos |-> TRUE, useUnconfirmedUtxos |-> TRUE] }

BuildParams ==
  { [unusedUtxos |-> u, desiredOutputs |-> o, changeAddress |-> "C", desiredFeeRate |-> r] @@ f :
      u \in UtxoLists, o \in OutputLists, r \in FeeRates, f \in FlagChoices }

\* The concrete scenarios of the specification's section 8 (boundary
\* scenarios 1, 2, 3 and 5), each an <<instance, arguments>> pair
ScenarioConfig(poolSize) ==
  [dustThreshold |-> 546, networkMinRelayFee |-> 1000, targetUtxoPoolSize |-> poolSize,
   minChangeSat |-> 0]

ScenarioParams(utxoValues, outputValue, flags) ==
  [unusedUtxos |-> withOutpoints([i \in 1..Len(utxoValues) |->
                     [value |-> toMainDenominationString(utxoValues[i]),
                      satoshis |-> utxoValues[i], height |-> 5]]),
   desiredOutputs |-> <<[address |-> "A", value |-> toMainDenominationString(outputValue)]>>,
   changeAddress |-> "C",
   desiredFeeRate |-> [feeRate |-> Dec(10, 0), feeRateType |-> "BasePerWeight"]] @@ flags

ScenarioIdealSingleInput == <<ScenarioConfig(1), ScenarioParams(<<10000, 50000>>, 8000, <<>>)>>
ScenarioSweep == <<ScenarioConfig(1), ScenarioParams(<<30000, 20000>>, 50000, [useAllUtxos |-> TRUE])>>
ScenarioPoolFill == <<ScenarioConfig(4), ScenarioParams(<<1000000>>, 100000, <<>>)>>
ScenarioInsufficient == <<ScenarioConfig(1), ScenarioParams(<<3000, 2000>>, 10000, <<>>)>>

\* A flat fee of 2500 base units
FlatFeeRate == [feeRate |-> Dec(25, 6), feeRateType |-> "Main"]

\* A dust threshold of 1 and a pool of 2: the total change of 3 splits into the
\* shares 1 and 2, the first is dropped, and the loose change of 1 equals the
\* number of surviving change outputs
ScenarioLooseEqualsCount ==
  << [dustThreshold |-> 1, networkMinRelayFee |-> 1000, targetUtxoPoolSize |-> 2, minChangeSat |-> 0],
     [ScenarioParams(<<10503>>, 8000, <<>>) EXCEPT !.desiredFeeRate = FlatFeeRate] >>

\* A minimum change of 1000 and a pool of 2: the total change of 3000 splits
\* into the shares 1000 and 2000, the first exactly the minimum change
ScenarioChangeEqualsMinimum ==
  << [dustThreshold |-> 546, networkMinRelayFee |-> 1000, targetUtxoPoolSize |-> 2, minChangeSat |-> 1000],
     [ScenarioParams(<<13500>>, 8000, <<>>) EXCEPT !.desiredFeeRate = FlatFeeRate] >>

\* A confirmed UTXO of 500 and an unconfirmed one of 10920, unconfirmed UTXOs
\* allowed: the second alone pays the output of 8000 and the fee of one input,
\* the first is worth less than the fee of spending it
ScenarioSmallConfirmedFirst ==
  << ScenarioConfig(1),
     [ScenarioParams(<<500, 10920>>, 8000, [useUnconfirmedUtxos |-> TRUE])
        EXCEPT !.unusedUtxos[2] = [value |-> toMainDenominationString(10920), satoshis |-> 10920,
                                   txid |-> 2, vout |-> 0]] >>

\* A rate of "1.1" per vbyte, which is not a double, and no relay minimum: the
\* whole balance of two UTXOs is sent in a transaction of 340 vbytes, and the
\* product of the nearest double by 340 lies above 374
ScenarioInexactRate ==
  << [dustThreshold |-> 546, networkMinRelayFee |-> 0, targetUtxoPoolSize |-> 1, minChangeSat |-> 0],
     [ScenarioParams(<<30000, 20000>>, 50000, [useAllUtxos |-> TRUE])
        EXCEPT !.desiredFeeRate = [feeRate |-> Dec(11, 1), feeRateType |-> "BasePerWeight"]] >>

Scenarios ==
  { ScenarioIdealSingleInput, ScenarioSweep, ScenarioPoolFill, ScenarioInsufficient,
    ScenarioLooseEqualsCount, ScenarioChangeEqualsMinimum, ScenarioSmallConfirmedFirst,
    ScenarioInexactRate }

Pending == [status |-> "pending"]
Idle == [status |-> "idle"]

IdleCreate == created = Idle
IdleBuild == payments = Idle /\ params = Idle /\ paymentTx = Idle /\ IdleCreate
IdleBroadcast == signedTx = Idle /\ node = Idle /\ broadcast = Idle
IdleScan == rippleServer = Idle /\ scan = Idle /\ requests = Idle /\ sink = Idle
IdleSubscribe == subscription = Idle
IdleLive == live = Idle
IdleMonitor == monitor = Idle

(***************************************************************************)
(* SpecBuild: one buildPaymentTx call on any instance and any arguments.   *)
(***************************************************************************)
InitBuild ==
  /\ \/ payments \in PaymentsConfigs /\ params \in BuildParams
     \/ \E sc \in Scenarios : payments = sc[1] /\ params = sc[2]
  /\ paymentTx = awaitNextAddress(params.desiredOutputs, <<>>)
  /\ IdleCreate
  /\ IdleBroadcast
  /\ IdleScan
  /\ IdleSubscribe
  /\ IdleLive
  /\ IdleMonitor

\* line 344 answers: lines 344-355 for the output that was read, then the loop
\* test and the read of the next output, up to the next await
OutputAddressValidated ==
  /\ paymentTx.status = "pending"
  /\ paymentTx.awaits = "outputAddress"
  /\ LET converted == convertDesiredOutput(paymentTx.output, paymentTx.externalOutputs)
     IN  paymentTx' = IF converted.error # "none" THEN Failure(converted.error)
                      ELSE awaitNextAddress(params.desiredOutputs, converted.externalOutputs)
  /\ UNCHANGED <<payments, params, created, broadcastVars, scanVars, subscribeVars, liveVars, monitorVars>>

\* line 357 answers: the rest of the call, which reads the caller's UTXO array
\* and the instance's fields as they are now
BuildPaymentTx ==
  /\ paymentTx.status = "pending"
  /\ paymentTx.awaits = "changeAddress"
  /\ paymentTx' = buildPaymentTx(params, paymentTx.externalOutputs)
  /\ UNCHANGED <<payments, params, created, broadcastVars, scanVars, subscribeVars, liveVars, monitorVars>>

\* While the call waits at line 344 or 357 other code runs.  The caller's
\* unusedUtxos array is the one the call holds (line 333 copies the reference):
\* a UTXO pushed onto it now is read by line 361.
UtxoArrives ==
  /\ paymentTx.status = "pending"
  /\ Len(params.unusedUtxos) < MaxUtxos
  /\ \E utxo \in ArrivingUtxos :
       params' = [params EXCEPT !.unusedUtxos = withOutpoints(Append(@, utxo))]
  /\ UNCHANGED <<payments, paymentTx, created, broadcastVars, scanVars, subscribeVars, liveVars, monitorVars>>

\* While the call waits the instance's fields are assigned: the selection and
\* the change handling read this.dustThreshold, this.minChangeSat,
\* this.targetUtxoPoolSize, this.networkMinRelayFee and this.minTxFee afterwards
InstanceReconfigured ==
  /\ paymentTx.status = "pending"
  /\ payments' \in PaymentsConfigs \ {payments}
  /\ UNCHANGED <<params, paymentTx, created, broadcastVars, scanVars, subscribeVars, liveVars, monitorVars>>

\* While the call waits the caller replaces a desired output the loop has not
\* read yet (line 342 reads each output in its own turn)
OutputReplaced ==
  /\ paymentTx.status = "pending"
  /\ paymentTx.awaits = "outputAddress"
  /\ \E j \in (Len(paymentTx.externalOutputs) + 2)..Len(params.desiredOutputs) :
       \E output \in OutputChoices \ {params.desiredOutputs[j]} :
         params' = [params EXCEPT !.desiredOutputs[j] = output]
  /\ UNCHANGED <<payments, paymentTx, created, broadcastVars, scanVars, subscribeVars, liveVars, monitorVars>>

NextBuild ==
  \/ OutputAddressValidated
  \/ BuildPaymentTx
  \/ UtxoArrives
  \/ InstanceReconfigured
  \/ OutputReplaced

SpecBuild == InitBuild /\ [][NextBuild]_vars

(***************************************************************************)
(* The returned plan, read back in base units.                             *)
(***************************************************************************)
PlanReturned == paymentTx.status = "plan"
CallFailed(kind) == paymentTx.status = "error" /\ paymentTx.error = kind

baseValues(outputs) == [i \in 1..Len(outputs) |-> toBaseDenominationNumber(outputs[i].value)]
planInputValues == [i \in 1..Len(paymentTx.inputs) |-> paymentTx.inputs[i].satoshis]
planExternalValues == baseValues(paymentTx.externalOutputs)
planChangeValues == baseValues(paymentTx.changeOutputs)
planFee == toBaseDenominationNumber(paymentTx.fee)
SeqAll(s, P(_)) == \A i \in 1..Len(s) : P(s[i])

\* The arguments pass validation: every desired output has a valid address and
\* a positive amount, and the change address is valid
ParamsValid ==
  /\ \A i \in 1..Len(params.desiredOutputs) :
       /\ params.desiredOutputs[i].address \in ValidAddresses
       /\ toBaseDenominationNumber(params.desiredOutputs[i].value) > 0
  /\ params.changeAddress \in ValidAddresses

requestedValues == baseValues(params.desiredOutputs)
requestedTotal == SumSeq(requestedValues)
requestedOutputs ==
  [i \in 1..Len(params.desiredOutputs) |->
     [address |-> params.desiredOutputs[i].address, satoshis |-> requestedValues[i]]]

\* What selection computes for the call's arguments
selected == selectionFor(params, requestedOutputs)
survivingUtxos == filterUtxos(params.unusedUtxos, useUnconfirmedUtxosOf(params))

(***************************************************************************)
(* Claims about buildPaymentTx.                                            *)
(***************************************************************************)
\* C1: value conservation.  In every returned plan the input values sum to the
\* external output values plus the change output values plus the fee, in base
\* units, and none of these values is negative.
C1_ValueConservation ==
  PlanReturned =>
    /\ SumSeq(planInputValues) = SumSeq(planExternalValues) + SumSeq(planChangeValues) + planFee
    /\ SeqAll(planInputValues, LAMBDA v : v >= 0)
    /\ SeqAll(planExternalValues, LAMBDA v : v >= 0)
    /\ SeqAll(planChangeValues, LAMBDA v : v >= 0)
    /\ planFee >= 0

\* C1 witness: a plan with two inputs and two change outputs whose fee took
\* up loose change (it exceeds the fee estimated for the plan's shape)
C1_Witness ==
  /\ PlanReturned
  /\ Len(paymentTx.inputs) = 2
  /\ Len(paymentTx.changeOutputs) = 2
  /\ planFee > estimateTxFee(params.desiredFeeRate, 2, 2,
                             [i \in 1..Len(paymentTx.externalOutputs) |-> "A"])

\* C2: dust policy.  Every output of a returned plan, external or change, is
\* strictly greater than dustThreshold.
C2_DustPolicy ==
  PlanReturned =>
    /\ SeqAll(planExternalValues, LAMBDA v : v > dustThreshold)
    /\ SeqAll(planChangeValues, LAMBDA v : v > dustThreshold)

\* C3: minimum change.  If minChangeSat > 0, every change output of a returned
\* plan is at least minChangeSat.
C3_MinimumChange ==
  (PlanReturned /\ minChangeSat > 0) => SeqAll(planChangeValues, LAMBDA v : v >= minChangeSat)

\* C4: fee floor.  The fee of a returned plan is at least networkMinRelayFee
\* and, when minTxFee is configured, at least the minTxFee rate applied to the
\* plan's own shape.
C4_FeeFloor ==
  PlanReturned =>
    /\ planFee >= networkMinRelayFee
    /\ ~isUndefined(payments, "minTxFee") =>
         ~NumberLt(NumberOf(planFee),
                 feeRateToSatoshis(payments.minTxFee, Len(paymentTx.inputs),
                                   Len(paymentTx.changeOutputs),
                                   [i \in 1..Len(paymentTx.externalOutputs) |->
                                      paymentTx.externalOutputs[i].address]))

\* C5: unconfirmed filter.  When useUnconfirmedUtxos is false or omitted, every
\* input of a returned plan is one of the caller's confirmed UTXOs (its height
\* is a positive integer).
C5_UnconfirmedFilter ==
  (PlanReturned /\ ~useUnconfirmedUtxosOf(params)) =>
    \A i \in 1..Len(paymentTx.inputs) :
      /\ "height" \in DOMAIN paymentTx.inputs[i]
      /\ paymentTx.inputs[i].height > 0
      /\ \E j \in 1..Len(params.unusedUtxos) :
           /\ params.unusedUtxos[j].txid = paymentTx.inputs[i].txid
           /\ "height" \in DOMAIN params.unusedUtxos[j]

\* C5 witness: a plan built without unconfirmed UTXOs from a candidate list
\* that holds an unconfirmed UTXO ahead of the confirmed one that was used
C5_Witness ==
  /\ PlanReturned
  /\ ~useUnconfirmedUtxosOf(params)
  /\ Len(params.unusedUtxos) = 2
  /\ "height" \notin DOMAIN params.unusedUtxos[1]
  /\ Len(paymentTx.inputs) = 1
  /\ paymentTx.inputs[1].txid = 2

\* C6: sweep mode.  A plan returned for useAllUtxos = true has every surviving
\* UTXO as input and no change output.
C6_SweepMode ==
  (PlanReturned /\ useAllUtxosOf(params)) =>
    /\ paymentTx.inputs = survivingUtxos
    /\ Len(paymentTx.changeOutputs) = 0

\* C7: insufficient funds.  If the desired outputs plus the fee exceed the
\* total of the selected inputs and the desired outputs do not equal that
\* total, the call fails with the insufficient-funds error; so it does for
\* UTXOs that sum to 5000 and a desired output of 10000.
C7_InsufficientFunds ==
  /\ (/\ paymentTx.status # "pending"
      /\ ParamsValid
      /\ requestedTotal + selected.feeSat > selected.selectedTotalSat
      /\ requestedTotal # selected.selectedTotalSat)
     => CallFailed("InsufficientFunds")
  /\ (<<payments, params>> = ScenarioInsufficient /\ paymentTx.status # "pending")
     => CallFailed("InsufficientFunds")

\* C7 witness: two surviving UTXOs that together do not pay the outputs and
\* the fee
C7_Witness ==
  /\ CallFailed("InsufficientFunds")
  /\ Len(survivingUtxos) = 2
  /\ requestedTotal < selected.selectedTotalSat

\* C8: fee-subtraction sweep.  When the n >= 1 desired outputs sum to the input
\* total exactly, every external output of the plan is its requested value
\* minus ceil(fee / n), fee being the fee selection computed; and if one of the
\* reduced values is at or below dustThreshold the call fails with the dust
\* error.  UTXOs of 30000 and 20000 swept to one output of 50000 at 10 per
\* vbyte give an output of 46600 and a fee of 3400.
C8_FeeSubtraction ==
  /\ (/\ paymentTx.status # "pending"
      /\ ParamsValid
      /\ Len(requestedValues) >= 1
      /\ requestedTotal = selected.selectedTotalSat)
     => LET n == Len(requestedValues)
            feeShare == (selected.feeSat + n - 1) \div n
        IN  IF \E i \in 1..n : requestedValues[i] - feeShare <= dustThreshold
              THEN CallFailed("DustOutput")
              ELSE /\ PlanReturned
                   /\ planExternalValues = [i \in 1..n |-> requestedValues[i] - feeShare]
  /\ (<<payments, params>> = ScenarioSweep /\ paymentTx.status # "pending")
     => PlanReturned /\ planExternalValues = <<46600>> /\ planFee = 3400

\* C8 witness: a whole-balance plan with two outputs whose fee does not divide
\* evenly between them
C8_Witness ==
  /\ PlanReturned
  /\ ParamsValid
  /\ Len(requestedValues) = 2
  /\ requestedTotal = selected.selectedTotalSat
  /\ selected.feeSat % 2 = 1

\* C13: empty output list.  buildPaymentTx called with an empty desiredOutputs
\* list fails with an invalid-amount error and returns no plan, whatever the
\* UTXO set and the flags.
C13_EmptyOutputs ==
  (paymentTx.status # "pending" /\ Len(params.desiredOutputs) = 0) => CallFailed("InvalidAmount")

\* The single-input fee of the call: estimateTxFee for 1 input, no change output
\* and the requested outputs
feeSingle ==
  estimateTxFee(params.desiredFeeRate, 1, 0, [i \in 1..Len(params.desiredOutputs) |-> params.desiredOutputs[i].address])

\* The positions, in the caller's order, of the surviving UTXOs whose value lies
\* in [sum(outputs) + feeSingle, sum(outputs) + feeSingle + dustThreshold]
idealPositions ==
  {k \in 1..Len(survivingUtxos) :
     /\ survivingUtxos[k].satoshis >= requestedTotal + feeSingle
     /\ survivingUtxos[k].satoshis <= requestedTotal + feeSingle + payments.dustThreshold}

TargetedMode == "useAllUtxos" \notin DOMAIN params \/ ~params.useAllUtxos

\* C15: ideal single input.  In targeted mode, when some surviving UTXO has its
\* value in [sum(outputs) + feeSingle, sum(outputs) + feeSingle + dustThreshold],
\* the plan's only input is the first such UTXO in the caller's order, the plan
\* has no change output, its external outputs are the requested ones, and its
\* fee is that UTXO's value minus sum(outputs).  In the example (UTXOs 10000 and
\* 50000, output 8000, 10 sat/vbyte) the input is 10000 and the fee 2000.
C15_IdealSingleInput ==
  /\ (paymentTx.status # "pending" /\ ParamsValid /\ TargetedMode /\ idealPositions # {}) =>
       LET first == CHOOSE k \in idealPositions : \A j \in idealPositions : k <= j
       IN  /\ PlanReturned
           /\ paymentTx.inputs = <<survivingUtxos[first]>>
           /\ paymentTx.changeOutputs = <<>>
           /\ planExternalValues = requestedValues
           /\ Len(paymentTx.outputs) = Len(params.desiredOutputs)
           /\ planFee = survivingUtxos[first].satoshis - requestedTotal
  /\ (paymentTx.status # "pending" /\ <<payments, params>> = ScenarioIdealSingleInput) =>
       /\ PlanReturned
       /\ planInputValues = <<10000>>
       /\ planFee = 2000
       /\ paymentTx.changeOutputs = <<>>

\* C15 witness: two surviving UTXOs are ideal, the second one confirmed and the
\* first one not, and the plan spends the first
C15_Witness ==
  /\ PlanReturned
  /\ TargetedMode
  /\ Cardinality(idealPositions) = 2
  /\ ~isConfirmedUtxo(survivingUtxos[1])
  /\ isConfirmedUtxo(survivingUtxos[2])
  /\ paymentTx.inputs = <<survivingUtxos[1]>>
  /\ planFee > feeSingle

\* The fee of a returned plan once it has been recomputed for the plan's own
\* change outputs (lines 431-445): the selection's fee, or the estimate for the
\* actual number of change outputs when that is lower
feeAfterRecomputation ==
  LET recalculatedFee ==
        estimateTxFee(params.desiredFeeRate, Len(paymentTx.inputs), Len(paymentTx.changeOutputs),
                      [i \in 1..Len(params.desiredOutputs) |-> params.desiredOutputs[i].address])
  IN  IF selected.feeSat > recalculatedFee THEN recalculatedFee ELSE selected.feeSat

\* C16: loose-change redistribution.  In a plan with at least one change output,
\* the loose change left after the fee recomputation is shared out in whole
\* units among the change outputs whenever it is at least their number (their
\* exact number included), so what the fee absorbs of it is strictly less than
\* the number of change outputs.
C16_LooseChangeRedistribution ==
  (PlanReturned /\ ParamsValid /\ Len(paymentTx.changeOutputs) >= 1) =>
    /\ planFee - feeAfterRecomputation >= 0
    /\ planFee - feeAfterRecomputation < Len(paymentTx.changeOutputs)

\* The change split the claim C17 describes, for a returned plan whose external
\* outputs are the requested ones: the number k of candidate shares, the total
\* change at splitting, the candidate shares in ascending weight order, and
\* those of them that are strictly above max(dustThreshold, minChangeSat)
splitCount ==
  LET remaining == Len(params.unusedUtxos) - Len(paymentTx.inputs)
  IN  IF payments.targetUtxoPoolSize - remaining > 1 THEN payments.targetUtxoPoolSize - remaining ELSE 1

splitTotal == SumSeq(planInputValues) - SumSeq(planExternalValues) - selected.feeSat

splitShares == [i \in 1..splitCount |-> (splitTotal * (2 ^ (i - 1))) \div ((2 ^ splitCount) - 1)]

splitThreshold ==
  IF payments.dustThreshold > payments.minChangeSat THEN payments.dustThreshold ELSE payments.minChangeSat

splitEmitted == SelectSeq(splitShares, LAMBDA share : share > splitThreshold)

\* C17: change split rule.  With k = max(1, targetUtxoPoolSize - (|unusedUtxos| -
\* |selected|)) the i-th candidate change share is floor(totalChange * 2^i /
\* (2^k - 1)); a share is emitted if and only if it is strictly greater than
\* max(dustThreshold, minChangeSat), a share equal to minChangeSat being
\* dropped; the emitted shares, each raised by the same redistributed amount,
\* follow the external outputs in ascending weight order.
C17_ChangeSplitRule ==
  (PlanReturned /\ ParamsValid /\ planExternalValues = requestedValues) =>
    /\ paymentTx.outputs = paymentTx.externalOutputs \o paymentTx.changeOutputs
    /\ IF splitEmitted = <<>>
         THEN Len(planChangeValues) <= 1
         ELSE /\ Len(planChangeValues) = Len(splitEmitted)
              /\ \A j \in 1..Len(splitEmitted) :
                   /\ planChangeValues[j] >= splitEmitted[j]
                   /\ planChangeValues[j] - splitEmitted[j] = planChangeValues[1] - splitEmitted[1]

\* C18: assertion validity.  For arguments that pass validation and the
\* insufficient-funds / fee-subtraction step, the total change at change
\* splitting and the loose change after the fee recomputation are never
\* negative: buildPaymentTx never fails on either of its two hard-fail branches,
\* and a returned plan has a total change of at least 0 that its change
\* outputs add up to.
C18_AssertionValidity ==
  /\ ~CallFailed("NegativeTotalChange")
  /\ ~CallFailed("NegativeLooseChange")
  /\ PlanReturned =>
       /\ toBaseDenominationNumber(paymentTx.change) >= 0
       /\ toBaseDenominationNumber(paymentTx.change) = SumSeq(planChangeValues)
       /\ SumSeq(planInputValues) - SumSeq(planExternalValues) - planFee >= 0

\* C18 witness: a plan whose inputs pay the requested outputs and the
\* selection's fee exactly, so that the total change at splitting is 0
C18_Witness ==
  /\ PlanReturned
  /\ ParamsValid
  /\ Len(paymentTx.inputs) >= 1
  /\ planExternalValues = requestedValues
  /\ SumSeq(planInputValues) - requestedTotal - selected.feeSat = 0

\* The fee of a transaction that spends inputCount of the surviving UTXOs:
\* estimateTxFee for that many inputs, the change outputs targeted for that
\* many inputs, and the requested outputs
feeForInputs(inputCount) ==
  estimateTxFee(params.desiredFeeRate, inputCount,
                determineTargetChangeOutputCount(Len(params.unusedUtxos), inputCount),
                [i \in 1..Len(params.desiredOutputs) |-> params.desiredOutputs[i].address])

\* The non-empty sets of surviving UTXOs that pay the requested outputs and
\* the fee of spending them
coveringSubsets ==
  {S \in (SUBSET (1..Len(survivingUtxos))) \ {{}} :
     SumSeq([k \in 1..Len(survivingUtxos) |-> IF k \in S THEN survivingUtxos[k].satoshis ELSE 0])
       >= requestedTotal + feeForInputs(Cardinality(S))}

\* C22: no false insufficient-funds.  In targeted mode buildPaymentTx fails
\* with the insufficient-funds error only if no non-empty subset of the
\* surviving candidates pays the outputs plus the fee estimated for that many
\* inputs; it does not fail when one surviving UTXO alone would pay them.
C22_NoFalseInsufficientFunds ==
  (CallFailed("InsufficientFunds") /\ TargetedMode) => coveringSubsets = {}

\* The call sends the whole balance: the requested outputs sum to the total of
\* the selected inputs, and buildPaymentTx takes the fee off the outputs
FeeSubtractionPath ==
  /\ ParamsValid
  /\ Len(requestedValues) >= 1
  /\ requestedTotal = selected.selectedTotalSat

\* C23: a full-balance send leaves nothing behind.  Whenever buildPaymentTx
\* takes the fee-subtraction path, in sweep mode or targeted mode and for any
\* targetUtxoPoolSize, the returned plan has no change output, its fee is
\* n * ceil(fee / n) for the n external outputs and the fee selection
\* computed, and the external outputs plus the fee make the input total.
C23_FullBalanceSend ==
  (PlanReturned /\ FeeSubtractionPath) =>
    LET n == Len(requestedValues)
    IN  /\ paymentTx.changeOutputs = <<>>
        /\ Len(paymentTx.outputs) = n
        /\ planFee = n * ((selected.feeSat + n - 1) \div n)
        /\ SumSeq(planExternalValues) + planFee = SumSeq(planInputValues)

(***************************************************************************)
(* broadcastTransaction (lines 604-622).  A string whose prefix matters (an *)
(* error message) is a sequence of characters.  The node's answer is what  *)
(* the awaited call, this._retryDced(() => sendTx(hex)), settles with.     *)
(***************************************************************************)
\* String.prototype.startsWith
startsWith(str, prefix) ==
  Len(str) >= Len(prefix) /\ SubSeq(str, 1, Len(prefix)) = prefix

\* line 612: e.message || ''
messageOf(e) == IF isUndefined(e, "message") THEN <<>> ELSE e.message

\* A test for the sentinel anywhere in the message (mutant of isAlreadyBroadcast)
isAlreadyBroadcast_Anywhere(e) ==
  \E k \in 1..Len(messageOf(e)) :
    startsWith(SubSeq(messageOf(e), k, Len(messageOf(e))), <<"-", "2", "7">>)

\* line 613: the node already holds the transaction
isAlreadyBroadcast(e) == startsWith(messageOf(e), <<"-", "2", "7">>)

\* What the call settles with once the node has answered: the result {id: tx.id},
\* with the warning of line 609 when the node names another txid, or the
\* node's error thrown again
broadcastTransaction(tx, answer) ==
  IF answer.status = "accepted" THEN
    [status |-> "returned", result |-> [id |-> tx.id], warned |-> tx.id # answer.txId]
  ELSE IF isAlreadyBroadcast(answer.error) THEN
    [status |-> "returned", result |-> [id |-> tx.id], warned |-> FALSE]
  ELSE
    [status |-> "threw", error |-> answer.error]

TxIds == {"t1", "t2", "t3"}
SignedTxs == {[id |-> i, data |-> [hex |-> h]] : i \in TxIds, h \in {"h1", "h2"}}

\* Errors sendTx may fail with: "-27", "-27: known", "-26: dust", "-2", "",
\* "x-27", "27", and an error without a message
NodeErrors ==
  { [message |-> <<"-", "2", "7">>],
    [message |-> <<"-", "2", "7", ":", " ", "k", "n", "o", "w", "n">>],
    [message |-> <<"-", "2", "6", ":", " ", "d", "u", "s", "t">>],
    [message |-> <<"-", "2">>],
    [message |-> <<>>],
    [message |-> <<"x", "-", "2", "7">>],
    [message |-> <<"2", "7">>],
    [code |-> 500] }

InitBroadcast ==
  /\ signedTx \in SignedTxs
  /\ node = Pending
  /\ broadcast = Pending
  /\ IdleBuild
  /\ IdleScan
  /\ IdleSubscribe
  /\ IdleLive
  /\ IdleMonitor

\* The node accepts the transaction and answers with a txid
SendTxAccepted ==
  /\ node.status = "pending"
  /\ \E txId \in TxIds : node' = [status |-> "accepted", txId |-> txId]
  /\ UNCHANGED <<signedTx, broadcast, buildVars, scanVars, subscribeVars, liveVars, monitorVars>>

\* The node's sendTx fails
SendTxFailed ==
  /\ node.status = "pending"
  /\ \E e \in NodeErrors : node' = [status |-> "failed", error |-> e]
  /\ UNCHANGED <<signedTx, broadcast, buildVars, scanVars, subscribeVars, liveVars, monitorVars>>

\* broadcastTransaction resumes after the await and settles
BroadcastSettles ==
  /\ node.status # "pending"
  /\ broadcast.status = "pending"
  /\ broadcast' = broadcastTransaction(signedTx, node)
  /\ UNCHANGED <<signedTx, node, buildVars, scanVars, subscribeVars, liveVars, monitorVars>>

NextBroadcast == SendTxAccepted \/ SendTxFailed \/ BroadcastSettles

SpecBroadcast == InitBroadcast /\ [][NextBroadcast]_vars

(***************************************************************************)
(* Claims about broadcastTransaction.                                      *)
(***************************************************************************)
\* C9: broadcast idempotency.  broadcastTransaction(tx) returns {id: tx.id} when
\* the node accepts the transaction and when sendTx fails with an error whose
\* message starts with "-27"; for any other sendTx error it returns no result
\* and throws that same error.
C9_BroadcastIdempotency ==
  (broadcast.status \in {"returned", "threw"}) =>
    LET sentinel == /\ node.status = "failed"
                    /\ "message" \in DOMAIN node.error
                    /\ Len(node.error.message) >= 3
                    /\ node.error.message[1] = "-"
                    /\ node.error.message[2] = "2"
                    /\ node.error.message[3] = "7"
    IN  IF node.status = "accepted" \/ sentinel
          THEN broadcast.status = "returned" /\ broadcast.result = [id |-> signedTx.id]
          ELSE broadcast.status = "threw" /\ broadcast.error = node.error

\* C9 witness: the node failed with "-27: known" and the call returned the
\* transaction's own id
C9_Witness ==
  /\ broadcast.status = "returned"
  /\ node.status = "failed"
  /\ Len(node.error.message) > 3
  /\ broadcast.result.id = signedTx.id

(***************************************************************************)
(* RippleBalanceMonitor: JavaScript values used by the ledger scan.        *)
(* A string whose characters matter (completeLedgers, an activity          *)
(* sequence) is a sequence of one-character strings.  A value that is      *)
(* either a number or an object (options.from, options.to) is a record:    *)
(* the number n is [number |-> n].  null is the record Null where an       *)
(* object is expected and the string NullString where a string is.         *)
(***************************************************************************)
DigitChars == <<"0", "1", "2", "3", "4", "5", "6", "7", "8", "9">>

isDigit(c) == \E d \in 1..Len(DigitChars) : DigitChars[d] = c

digitValue(c) == (CHOOSE d \in 1..Len(DigitChars) : DigitChars[d] = c) - 1

\* UTF-16 code unit of the characters that occur in the model: '-', '.', digits
charCode(c) == IF c = "-" THEN 45 ELSE IF c = "." THEN 46 ELSE 48 + digitValue(c)

\* String(n) of a non-negative integer: its decimal digits
RECURSIVE String(_)
String(n) == IF n < 10 THEN <<DigitChars[n + 1]>> ELSE String(n \div 10) \o <<DigitChars[(n % 10) + 1]>>

NaN == "NaN"

\* The value of a sequence of digits
RECURSIVE digitsToNumber(_)
digitsToNumber(str) == IF Len(str) = 0 THEN 0 ELSE 10 * digitsToNumber(SubSeq(str, 1, Len(str) - 1)) + digitValue(str[Len(str)])

\* The longest prefix of str made of digits
RECURSIVE leadingDigits(_)
leadingDigits(str) == IF Len(str) = 0 \/ ~isDigit(str[1]) THEN <<>> ELSE <<str[1]>> \o leadingDigits(Tail(str))

\* Number.parseInt of an unsigned string: the number its leading digits spell,
\* NaN when it has none
parseInt(str) == IF leadingDigits(str) = <<>> THEN NaN ELSE digitsToNumber(leadingDigits(str))

\* String.prototype.split with a one-character separator
RECURSIVE split(_, _)
split(str, sep) ==
  IF \E k \in 1..Len(str) : str[k] = sep
    THEN LET k == CHOOSE j \in 1..Len(str) : str[j] = sep /\ \A h \in 1..(j - 1) : str[h] # sep
         IN  <<SubSeq(str, 1, k - 1)>> \o split(SubSeq(str, k + 1, Len(str)), sep)
    ELSE <<str>>

\* parts[k] of a split string; an element beyond the end is undefined, which
\* parseInt reads like the empty string
partOf(parts, k) == IF k <= Len(parts) THEN parts[k] ELSE <<>>

\* a < b on strings: by code units, a proper prefix first
RECURSIVE stringLt(_, _)
stringLt(a, b) ==
  IF Len(b) = 0 THEN FALSE
  ELSE IF Len(a) = 0 THEN TRUE
  ELSE IF a[1] # b[1] THEN charCode(a[1]) < charCode(b[1])
  ELSE stringLt(Tail(a), Tail(b))

\* utils.padLeft(x, n, v): v is put in front of x until x has n characters
RECURSIVE padLeft(_, _, _)
padLeft(x, n, v) == IF Len(x) >= n THEN x ELSE padLeft(<<v>> \o x, n, v)

Null == [isNull |-> TRUE]
isNull(v) == "isNull" \in DOMAIN v
NullString == "null"

isNumber(v) == "number" \in DOMAIN v

\* obj with obj[field] = value, and obj with field undefined
withField(obj, field, value) == [f \in DOMAIN obj \cup {field} |-> IF f = field THEN value ELSE obj[f]]
withoutField(obj, field) == [f \in DOMAIN obj \ {field} |-> obj[f]]

(***************************************************************************)
(* RippleBalanceMonitor.resolveFromToLedgers (lines 127-155)               *)
(***************************************************************************)
\* lines 133-134: a requested bound is the number itself or the
\* confirmationNumber of the object
requestedLedger(v) == IF isNumber(v) THEN v.number ELSE v.confirmationNumber

\* lines 135-142: the server's first ledger unless the request starts later
resolveFrom(options, fromLedgerVersion) ==
  IF isUndefined(options, "from") THEN fromLedgerVersion
  ELSE IF requestedLedger(options.from) < fromLedgerVersion THEN fromLedgerVersion
  ELSE requestedLedger(options.from)

\* lines 143-150: the server's last ledger unless the request ends earlier
resolveTo(options, toLedgerVersion) ==
  IF isUndefined(options, "to") THEN toLedgerVersion
  ELSE IF requestedLedger(options.to) > toLedgerVersion THEN toLedgerVersion
  ELSE requestedLedger(options.to)

resolveFromToLedgers(options, serverInfo) ==
  LET completeLedgers == split(serverInfo.completeLedgers, "-")
  IN  [ from |-> resolveFrom(options, parseInt(partOf(completeLedgers, 1))),
        to |-> resolveTo(options, parseInt(partOf(completeLedgers, 2))) ]

(***************************************************************************)
(* RippleBalanceMonitor.paymentToBalanceActivities (lines 196-234)         *)
(***************************************************************************)
\* line 222: this.networkType, the network the monitor was constructed for
networkType == monitor.networkType

\* lines 197-201: the direction of the payment as seen from the address
activityType(address, tx) ==
  IF tx.specification.source.address = address THEN "out"
  ELSE IF tx.specification.destination.address = address THEN "in"
  ELSE NullString

\* lines 207-208
primarySequence(tx) == padLeft(String(tx.outcome.ledgerVersion), 12, "0")
secondarySequence(tx) == padLeft(String(tx.outcome.indexInLedger), 8, "0")

\* line 218
tertiarySequence(type) == IF type = "out" THEN <<"0", "0">> ELSE <<"0", "1">>

\* line 219
activitySequence(tx, type) ==
  primarySequence(tx) \o <<".">> \o secondarySequence(tx) \o <<".">> \o tertiarySequence(type)

\* line 210: the party of the payment that is the address
taggedParty(tx, type) == IF type = "out" THEN tx.specification.source ELSE tx.specification.destination

\* line 226
extraIdOf(party) == IF isUndefined(party, "tag") THEN Null ELSE String(party.tag)

\* line 211: tx.outcome.balanceChanges[address] || []
balanceChangesOf(address, tx) ==
  IF address \in DOMAIN tx.outcome.balanceChanges THEN tx.outcome.balanceChanges[address] ELSE <<>>

\* line 211: the positions of the XRP entries; find takes the first
xrpEntries(changes) == {k \in 1..Len(changes) : changes[k].currency = "XRP"}

\* line 232: the Date built from the ledger's close time
Date(closeTime) == [date |-> closeTime]

\* The activity of a payment, Null when the payment does not concern the
\* address (line 204) or moved no XRP for it (line 214)
paymentToBalanceActivities(address, tx, ledger) ==
  LET type == activityType(address, tx)
      changes == balanceChangesOf(address, tx)
  IN  IF type = NullString THEN Null
      ELSE IF xrpEntries(changes) = {} THEN Null
      ELSE LET balanceChange == changes[CHOOSE k \in xrpEntries(changes) : \A j \in xrpEntries(changes) : k <= j]
           IN  [ type |-> type,
                 networkType |-> networkType,
                 networkSymbol |-> "TRX",
                 assetSymbol |-> balanceChange.currency,
                 address |-> address,
                 extraId |-> extraIdOf(taggedParty(tx, type)),
                 amount |-> balanceChange.value,
                 externalId |-> tx.id,
                 activitySequence |-> activitySequence(tx, type),
                 confirmationId |-> ledger.ledgerHash,
                 confirmationNumber |-> tx.outcome.ledgerVersion,
                 timestamp |-> Date(ledger.closeTime) ]

(***************************************************************************)
(* RippleBalanceMonitor.retrieveBalanceActivities (lines 156-195)          *)
(***************************************************************************)
limit == 10

ValidRippleAddresses == {"rA", "rB", "rC"}

\* helpers.assertValidAddress passes
isValidRippleAddress(address) == address \in ValidRippleAddresses

\* A loop that goes on after a short page (mutant of loopContinues)
loopContinues_AfterShortPage(s) ==
  IF isUndefined(s, "transactions") THEN TRUE
  ELSE ~isUndefined(s, "lastTx") /\ s.lastTx.outcome.ledgerVersion <= s.to

\* lines 162-163: the condition of the while loop
loopContinues(s) ==
  IF isUndefined(s, "transactions") THEN TRUE
  ELSE /\ Len(s.transactions) = limit
       /\ ~isUndefined(s, "lastTx")
       /\ s.lastTx.outcome.ledgerVersion <= s.to

\* lines 164-176: the options of the next getTransactions request
getTransactionOptions(s) ==
  IF ~isUndefined(s, "lastTx")
    THEN [ types |-> <<"payment">>, earliestFirst |-> TRUE, excludeFailures |-> TRUE,
           limit |-> limit, startTx |-> s.lastTx ]
    ELSE [ types |-> <<"payment">>, earliestFirst |-> TRUE, excludeFailures |-> TRUE,
           limit |-> limit, minLedgerVersion |-> s.from, maxLedgerVersion |-> s.to ]

\* No cursor test at all (mutant of isLastTx)
isLastTx_Never(s, tx) == FALSE

\* line 181: the transaction is the cursor the page was asked from
isLastTx(s, tx) == ~isUndefined(s, "lastTx") /\ tx.id = s.lastTx.id

\* No test against the upper end of the window (mutant of isSkipped)
isSkipped_NoUpperBound(s, tx) ==
  \/ tx.type # "payment"
  \/ isLastTx(s, tx)
  \/ tx.outcome.ledgerVersion < s.from

\* lines 180-183: the transactions of a page that are passed over
isSkipped(s, tx) ==
  \/ tx.type # "payment"
  \/ isLastTx(s, tx)
  \/ tx.outcome.ledgerVersion < s.from
  \/ tx.outcome.ledgerVersion > s.to

\* line 192: lastTx = transactions[transactions.length - 1], undefined for an
\* empty page
assignLastTx(s) ==
  IF Len(s.transactions) = 0 THEN withoutField(s, "lastTx")
  ELSE withField(s, "lastTx", s.transactions[Len(s.transactions)])

(***************************************************************************)
(* The ripple server behind rippleApi, as the scan uses it: getServerInfo, *)
(* getTransactions and getLedger.  A page holds the account's transactions *)
(* of the requested types, earliest first by (ledgerVersion,               *)
(* indexInLedger), at most options.limit of them; it starts at the cursor  *)
(* transaction when the request carries startTx, and is confined to        *)
(* [minLedgerVersion, maxLedgerVersion] otherwise.                         *)
(***************************************************************************)
getServerInfo(server) == [completeLedgers |-> server.completeLedgers]

hasType(tx, types) == \E k \in 1..Len(types) : types[k] = tx.type

seqFrom(txs, first) == IF first > Len(txs) THEN <<>> ELSE SubSeq(txs, first, Len(txs))

firstN(txs, n) == IF Len(txs) <= n THEN txs ELSE SubSeq(txs, 1, n)

getTransactions(server, address, options) ==
  LET ofTypes == SelectSeq(server.history, LAMBDA tx : hasType(tx, options.types))
      inWindow(tx) == /\ tx.outcome.ledgerVersion >= options.minLedgerVersion
                      /\ tx.outcome.ledgerVersion <= options.maxLedgerVersion
      atCursor == {k \in 1..Len(ofTypes) : ofTypes[k].id = options.startTx.id}
      matching == IF isUndefined(options, "startTx") THEN SelectSeq(ofTypes, inWindow)
                  ELSE IF atCursor = {} THEN <<>>
                  ELSE seqFrom(ofTypes, CHOOSE k \in atCursor : TRUE)
  IN  firstN(matching, options.limit)

getLedger(server, ledgerVersion) ==
  [ledgerHash |-> <<"L">> \o String(ledgerVersion), closeTime |-> 4 * ledgerVersion]

(***************************************************************************)
(* Histories, servers and calls of the scan.                               *)
(***************************************************************************)
MaxHistory == 21   \* most transactions in the account's history

\* One transaction of each kind the classification tells apart.  The scanned
\* account is rA.
PaymentOf(id, ledgerVersion, indexInLedger, source, destination, balanceChanges) ==
  [ id |-> id, type |-> "payment",
    specification |-> [source |-> source, destination |-> destination],
    outcome |-> [ ledgerVersion |-> ledgerVersion, indexInLedger |-> indexInLedger,
                  balanceChanges |-> balanceChanges ] ]

TxOfKind(kind, id, ledgerVersion, indexInLedger) ==
  CASE kind = "out" ->
         PaymentOf(id, ledgerVersion, indexInLedger, [address |-> "rA", tag |-> 7], [address |-> "rB"],
                   [rA |-> <<[currency |-> "XRP", value |-> "-1.5"]>>, rB |-> <<[currency |-> "XRP", value |-> "1.4"]>>])
    [] kind = "in" ->
         PaymentOf(id, ledgerVersion, indexInLedger, [address |-> "rB"], [address |-> "rA", tag |-> 12],
                   [rA |-> <<[currency |-> "USD", value |-> "3"]>> \o <<[currency |-> "XRP", value |-> "2"]>>])
    [] kind = "self" ->
         PaymentOf(id, ledgerVersion, indexInLedger, [address |-> "rA"], [address |-> "rA"],
                   [rA |-> <<[currency |-> "XRP", value |-> "-0.00001"]>>])
    [] kind = "rippling" ->
         PaymentOf(id, ledgerVersion, indexInLedger, [address |-> "rB"], [address |-> "rC"],
                   [rA |-> <<[currency |-> "XRP", value |-> "0.1"]>>])
    [] kind = "token" ->
         PaymentOf(id, ledgerVersion, indexInLedger, [address |-> "rB"], [address |-> "rA"],
                   [rA |-> <<[currency |-> "USD", value |-> "5"]>>])
    [] kind = "unchanged" ->
         PaymentOf(id, ledgerVersion, indexInLedger, [address |-> "rB"], [address |-> "rA"],
                   [rB |-> <<[currency |-> "XRP", value |-> "-1"]>>])
    [] kind = "order" ->
         [ id |-> id, type |-> "order", specification |-> [direction |-> "buy"],
           outcome |-> [ ledgerVersion |-> ledgerVersion, indexInLedger |-> indexInLedger,
                         balanceChanges |-> [rA |-> <<[currency |-> "XRP", value |-> "-0.00001"]>>] ] ]

\* The kinds of the transactions of a history, repeated in this order
KindPatterns ==
  { <<"out", "in">>,
    <<"in", "rippling", "token", "out", "order", "unchanged", "self">> }

\* A history of n transactions, perLedger of them in each ledger from ledger 96
\* on, at indexes 0, 9, 18: ledger versions pass from two digits to three and
\* indexes from one digit to two
HistoryOf(n, perLedger, pattern) ==
  [ k \in 1..n |-> TxOfKind(pattern[((k - 1) % Len(pattern)) + 1], k,
                            96 + ((k - 1) \div perLedger), 9 * ((k - 1) % perLedger)) ]

Histories == {HistoryOf(n, perLedger, pattern) : n \in 0..MaxHistory, perLedger \in {1, 3}, pattern \in KindPatterns}

\* The server holds the ledgers 96-112; the history may run past ledger 112,
\* for ledgers that closed after getServerInfo answered
RippleServers == {[completeLedgers |-> <<"9", "6", "-", "1", "1", "2">>, history |-> h] : h \in Histories}

FromChoices == {[number |-> 90], [number |-> 100], [confirmationNumber |-> 98], [number |-> 120]}
ToChoices == {[number |-> 105], [confirmationNumber |-> 101], [number |-> 200], [number |-> 50]}

ScanOptions ==
  {<<>>} \cup {[from |-> f] : f \in FromChoices} \cup {[to |-> t] : t \in ToChoices}
    \cup {[from |-> f, to |-> t] : f \in FromChoices, t \in ToChoices}

ScanCalls ==
  {[pc |-> "start", address |-> "rA", options |-> o] : o \in ScanOptions}
    \cup {[pc |-> "start", address |-> "bogus", options |-> <<>>]}

\* The monitors: one constructed for each network
Monitors == {[networkType |-> n] : n \in {"mainnet", "testnet"}}

\* What a call that the server refused, or whose callback failed, rejects with
ScanRejected(s, error) == withField(withField(s, "pc", "failed"), "error", error)

InitScan ==
  /\ monitor \in Monitors
  /\ rippleServer \in RippleServers
  /\ scan \in ScanCalls
  /\ requests = <<>>
  /\ sink = <<>>
  /\ IdleBuild
  /\ IdleBroadcast
  /\ IdleSubscribe
  /\ IdleLive

\* lines 157-158 and 128: the address is validated and getServerInfo is asked
ResolveFromToLedgers ==
  /\ scan.pc = "start"
  /\ scan' = IF ~isValidRippleAddress(scan.address) THEN ScanRejected(scan, "InvalidAddress")
             ELSE withField(scan, "pc", "serverInfo")
  /\ UNCHANGED <<rippleServer, requests, sink, buildVars, broadcastVars, subscribeVars, liveVars, monitorVars>>

\* While line 128 waits, the caller changes the options object it passed
OptionsChanged ==
  /\ scan.pc = "serverInfo"
  /\ \E options \in ScanOptions \ {scan.options} : scan' = withField(scan, "options", options)
  /\ UNCHANGED <<rippleServer, requests, sink, buildVars, broadcastVars, subscribeVars, liveVars, monitorVars>>

\* lines 128-154 and 158: getServerInfo answers; the options are read now and
\* the window is resolved
GetServerInfoResolves ==
  /\ scan.pc = "serverInfo"
  /\ LET resolved == resolveFromToLedgers(scan.options, getServerInfo(rippleServer))
     IN  scan' = withField(withField(withField(scan, "pc", "loop"), "from", resolved.from), "to", resolved.to)
  /\ UNCHANGED <<rippleServer, requests, sink, buildVars, broadcastVars, subscribeVars, liveVars, monitorVars>>

\* line 128: getServerInfo fails, and the scan with it
GetServerInfoRejects ==
  /\ scan.pc = "serverInfo"
  /\ scan' = ScanRejected(scan, "ServerError")
  /\ UNCHANGED <<rippleServer, requests, sink, buildVars, broadcastVars, subscribeVars, liveVars, monitorVars>>

\* lines 162-177: the loop goes on and the next page is requested
GetTransactions ==
  /\ scan.pc = "loop"
  /\ loopContinues(scan)
  /\ requests' = Append(requests, getTransactionOptions(scan))
  /\ scan' = withField(scan, "pc", "transactions")
  /\ UNCHANGED <<rippleServer, sink, buildVars, broadcastVars, subscribeVars, liveVars, monitorVars>>

\* lines 177-179: the page arrives
GetTransactionsResolves ==
  /\ scan.pc = "transactions"
  /\ scan' = withField(withField(withField(scan, "pc", "page"),
                                 "transactions", getTransactions(rippleServer, scan.address, requests[Len(requests)])),
                       "i", 1)
  /\ UNCHANGED <<rippleServer, requests, sink, buildVars, broadcastVars, subscribeVars, liveVars, monitorVars>>

\* line 177: getTransactions fails, and the scan with it
GetTransactionsRejects ==
  /\ scan.pc = "transactions"
  /\ scan' = ScanRejected(scan, "ServerError")
  /\ UNCHANGED <<rippleServer, requests, sink, buildVars, broadcastVars, subscribeVars, liveVars, monitorVars>>

\* lines 180-185: the next transaction of the page is passed over
SkipTx ==
  /\ scan.pc = "page"
  /\ scan.i <= Len(scan.transactions)
  /\ isSkipped(scan, scan.transactions[scan.i])
  /\ scan' = withField(scan, "i", scan.i + 1)
  /\ UNCHANGED <<rippleServer, requests, sink, buildVars, broadcastVars, subscribeVars, liveVars, monitorVars>>

\* lines 186-187 and 197-209: the next transaction of the page is classified:
\* a payment that does not concern the address has no activity, for any other
\* the ledger is asked
ClassifyTx ==
  /\ scan.pc = "page"
  /\ scan.i <= Len(scan.transactions)
  /\ ~isSkipped(scan, scan.transactions[scan.i])
  /\ scan' = IF activityType(scan.address, scan.transactions[scan.i]) = NullString
               THEN withField(scan, "i", scan.i + 1)
               ELSE withField(scan, "pc", "ledger")
  /\ UNCHANGED <<rippleServer, requests, sink, buildVars, broadcastVars, subscribeVars, liveVars, monitorVars>>

\* lines 209-233 and 187-189: getLedger answers and paymentToBalanceActivities
\* returns: without an activity the loop goes on, with one callbackFn is called
LedgerResolves ==
  /\ scan.pc = "ledger"
  /\ LET tx == scan.transactions[scan.i]
         activity == paymentToBalanceActivities(scan.address, tx, getLedger(rippleServer, tx.outcome.ledgerVersion))
     IN  IF isNull(activity)
           THEN scan' = withField(withField(scan, "pc", "page"), "i", scan.i + 1) /\ sink' = sink
           ELSE scan' = withField(scan, "pc", "callback") /\ sink' = Append(sink, activity)
  /\ UNCHANGED <<rippleServer, requests, buildVars, broadcastVars, subscribeVars, liveVars, monitorVars>>

\* line 209: getLedger fails, and the scan with it
LedgerRejects ==
  /\ scan.pc = "ledger"
  /\ scan' = ScanRejected(scan, "ServerError")
  /\ UNCHANGED <<rippleServer, requests, sink, buildVars, broadcastVars, subscribeVars, liveVars, monitorVars>>

\* line 189: the awaited callbackFn call resolves
CallbackResolves ==
  /\ scan.pc = "callback"
  /\ scan' = withField(withField(scan, "pc", "page"), "i", scan.i + 1)
  /\ UNCHANGED <<rippleServer, requests, sink, buildVars, broadcastVars, subscribeVars, liveVars, monitorVars>>

\* The rejection is noted and the loop goes on (mutant of CallbackRejects)
CallbackRejects_Ignored ==
  /\ scan.pc = "callback"
  /\ scan' = withField(withField(withField(scan, "pc", "page"), "i", scan.i + 1), "error", "CallbackError")
  /\ UNCHANGED <<rippleServer, requests, sink, buildVars, broadcastVars, subscribeVars, liveVars, monitorVars>>

\* line 189: the awaited callbackFn call rejects, and the scan with it
CallbackRejects ==
  /\ scan.pc = "callback"
  /\ scan' = ScanRejected(scan, "CallbackError")
  /\ UNCHANGED <<rippleServer, requests, sink, buildVars, broadcastVars, subscribeVars, liveVars, monitorVars>>

\* line 192: the page is done
EndPage ==
  /\ scan.pc = "page"
  /\ scan.i > Len(scan.transactions)
  /\ scan' = withField(assignLastTx(scan), "pc", "loop")
  /\ UNCHANGED <<rippleServer, requests, sink, buildVars, broadcastVars, subscribeVars, liveVars, monitorVars>>

\* lines 162-163 and 194: the loop ends and the window is returned
ScanReturns ==
  /\ scan.pc = "loop"
  /\ ~loopContinues(scan)
  /\ scan' = withField(withField(scan, "pc", "done"), "result", [from |-> scan.from, to |-> scan.to])
  /\ UNCHANGED <<rippleServer, requests, sink, buildVars, broadcastVars, subscribeVars, liveVars, monitorVars>>

NextScan ==
  \/ ResolveFromToLedgers
  \/ OptionsChanged
  \/ GetServerInfoResolves
  \/ GetServerInfoRejects
  \/ GetTransactions
  \/ GetTransactionsResolves
  \/ GetTransactionsRejects
  \/ SkipTx
  \/ ClassifyTx
  \/ LedgerResolves
  \/ LedgerRejects
  \/ CallbackResolves
  \/ CallbackRejects
  \/ EndPage
  \/ ScanReturns

SpecScan == InitScan /\ [][NextScan]_vars

\* The call has settled: it returned or it rejected
scanSettled == scan.pc \in {"done", "failed"}

\* The steps of the call and of the server and the callback it waits for; the
\* caller's change of its options object is not one of them
ScanProgress ==
  \/ ResolveFromToLedgers
  \/ GetServerInfoResolves
  \/ GetServerInfoRejects
  \/ GetTransactions
  \/ GetTransactionsResolves
  \/ GetTransactionsRejects
  \/ SkipTx
  \/ ClassifyTx
  \/ LedgerResolves
  \/ LedgerRejects
  \/ CallbackResolves
  \/ CallbackRejects
  \/ EndPage
  \/ ScanReturns

\* The scan with its progress: the server settles every request, the callback
\* settles every invocation, and the call runs on whenever it can.  This is
\* WF_vars(ScanProgress) written out: a step of ScanProgress changes scan and
\* is possible exactly when the call has not settled.
SpecScanFair == SpecScan /\ ([]<>scanSettled \/ []<><<ScanProgress>>_vars)

(***************************************************************************)
(* Claims about retrieveBalanceActivities.                                 *)
(***************************************************************************)
\* C10: ordered emission.  Within one retrieveBalanceActivities call, across
\* all pages, the activities passed to the sink have strictly increasing
\* activitySequence as strings (none emitted twice, none out of order), for a
\* server that returns each page earliest-first and starts a cursor page at
\* the cursor transaction.
C10_OrderedEmission ==
  \A k \in 1..(Len(sink) - 1) : stringLt(sink[k].activitySequence, sink[k + 1].activitySequence)

\* C10 witness: a scan that returned after three pages has passed more than a
\* page of activities to the sink, from a two-digit ledger to a three-digit one
C10_Witness ==
  /\ scan.pc = "done"
  /\ Len(requests) = 3
  /\ Len(sink) > limit
  /\ sink[1].confirmationNumber < 100
  /\ sink[Len(sink)].confirmationNumber >= 100

\* The ledger range the server holds, read from its completeLedgers "min-max"
serverMinLedger == parseInt(partOf(split(rippleServer.completeLedgers, "-"), 1))
serverMaxLedger == parseInt(partOf(split(rippleServer.completeLedgers, "-"), 2))

\* The window has been resolved: the scan is past lines 157-158
WindowResolved == "from" \in DOMAIN scan

\* C11: window resolution.  For every requested from/to (absent, inside, partly
\* or wholly outside the server's range) the resolved {from, to} is the
\* requested range cut to the server's range [minLedger, maxLedger]: both
\* resolved bounds lie inside the server's range, and a requested bound that
\* lies inside it is kept.
C11_WindowResolution ==
  WindowResolved =>
    /\ serverMinLedger <= scan.from /\ scan.from <= serverMaxLedger
    /\ serverMinLedger <= scan.to /\ scan.to <= serverMaxLedger
    /\ ("from" \in DOMAIN scan.options =>
          LET requested == IF "number" \in DOMAIN scan.options.from THEN scan.options.from.number
                           ELSE scan.options.from.confirmationNumber
          IN  (serverMinLedger <= requested /\ requested <= serverMaxLedger) => scan.from = requested)
    /\ ("to" \in DOMAIN scan.options =>
          LET requested == IF "number" \in DOMAIN scan.options.to THEN scan.options.to.number
                           ELSE scan.options.to.confirmationNumber
          IN  (serverMinLedger <= requested /\ requested <= serverMaxLedger) => scan.to = requested)

\* C12: sink contract.  callbackFn is invoked for one activity at a time;
\* while an invocation is awaited nothing is classified, emitted or requested,
\* and the scan goes on with the next transaction only when it resolves; once
\* an invocation has failed the scan has failed with that error and makes no
\* further invocation and no further page request.
C12_SinkContract ==
  /\ [][ /\ (sink' # sink) =>
              /\ scan.pc = "ledger" /\ scan'.pc = "callback"
              /\ sink' = Append(sink, sink'[Len(sink')])
         /\ (scan.pc = "callback") =>
              /\ sink' = sink /\ requests' = requests
              /\ \/ scan'.pc = "failed" /\ scan'.error = "CallbackError"
                 \/ scan'.pc = "page" /\ scan'.i = scan.i + 1 /\ scan'.transactions = scan.transactions
         /\ ("error" \in DOMAIN scan) => (sink' = sink /\ requests' = requests) ]_vars
  /\ [](("error" \in DOMAIN scan) => scan.pc = "failed")

\* C12 witness: the callback failed on the second activity or later, with
\* transactions of the page still to come; they were not emitted
C12_Witness ==
  /\ scan.pc = "failed"
  /\ scan.error = "CallbackError"
  /\ Len(sink) >= 2
  /\ scan.i < Len(scan.transactions)
  /\ ~isSkipped(scan, scan.transactions[scan.i + 1])

(***************************************************************************)
(* RippleBalanceMonitor.subscribeAddresses (lines 99-116).  The call's     *)
(* state is the record subscription: its position pc, its argument         *)
(* addresses, the request it sent, the answer the awaited retryDced call   *)
(* settled with, what it logged, and the error it threw.                   *)
(***************************************************************************)
MaxAddresses == 3   \* longest list of addresses to subscribe

\* lines 100-102: assertValidAddress passes for every address
allAddressesValid(addresses) == \A k \in 1..Len(addresses) : isValidRippleAddress(addresses[k])

\* line 104: the request sent to the server
subscribeRequest(addresses) == [command |-> "subscribe", params |-> [accounts |-> addresses]]

\* lines 100-104: the addresses are validated, then the request is sent
validateAndRequest(sub) ==
  IF ~allAddressesValid(sub.addresses)
    THEN withField(withField(sub, "pc", "threw"), "error", "InvalidAddress")
    ELSE withField(withField(sub, "pc", "requesting"), "request", subscribeRequest(sub.addresses))

\* lines 105-110: what is logged for a response
logResponse(res) ==
  IF ~isUndefined(res, "status") /\ res.status = "success"
    THEN [level |-> "log", message |-> "Ripple successfully subscribed", detail |-> res]
    ELSE [level |-> "warn", message |-> "Ripple subscribe unsuccessful", detail |-> res]

\* lines 105-115: a response is logged and the call returns; a failure of the
\* request is logged and thrown again
settleSubscribe(sub) ==
  IF sub.answer.status = "resolved"
    THEN withField(withField(sub, "pc", "returned"), "log", Append(sub.log, logResponse(sub.answer.res)))
    ELSE withField(withField(withField(sub, "pc", "threw"), "error", sub.answer.error), "log",
                   Append(sub.log, [level |-> "error", message |-> "Failed to subscribe to ripple addresses",
                                    detail |-> sub.answer.error]))

AddressLists == SeqsUpTo({"rA", "rB", "bogus"}, MaxAddresses)

\* What the server may answer to a subscribe request
SubscribeResponses == {[status |-> "success"], [status |-> "error", error |-> "noPermission"], [result |-> <<>>]}

\* What the request may fail with
SubscribeErrors == {"TimeoutError", "RippledError"}

InitSubscribe ==
  /\ subscription \in {[pc |-> "start", addresses |-> a, log |-> <<>>] : a \in AddressLists}
  /\ IdleBuild
  /\ IdleBroadcast
  /\ IdleScan
  /\ IdleLive
  /\ IdleMonitor

\* lines 100-104
ValidateAddresses ==
  /\ subscription.pc = "start"
  /\ subscription' = validateAndRequest(subscription)
  /\ UNCHANGED <<buildVars, broadcastVars, scanVars, liveVars, monitorVars>>

\* line 104: the server answers the request
SubscribeAnswered ==
  /\ subscription.pc = "requesting"
  /\ isUndefined(subscription, "answer")
  /\ \E res \in SubscribeResponses :
       subscription' = withField(subscription, "answer", [status |-> "resolved", res |-> res])
  /\ UNCHANGED <<buildVars, broadcastVars, scanVars, liveVars, monitorVars>>

\* line 104: the request fails
SubscribeFailed ==
  /\ subscription.pc = "requesting"
  /\ isUndefined(subscription, "answer")
  /\ \E e \in SubscribeErrors :
       subscription' = withField(subscription, "answer", [status |-> "rejected", error |-> e])
  /\ UNCHANGED <<buildVars, broadcastVars, scanVars, liveVars, monitorVars>>

\* lines 105-115: subscribeAddresses resumes after the await and settles
SubscribeSettles ==
  /\ subscription.pc = "requesting"
  /\ ~isUndefined(subscription, "answer")
  /\ subscription' = settleSubscribe(subscription)
  /\ UNCHANGED <<buildVars, broadcastVars, scanVars, liveVars, monitorVars>>

NextSubscribe == ValidateAddresses \/ SubscribeAnswered \/ SubscribeFailed \/ SubscribeSettles

SpecSubscribe == InitSubscribe /\ [][NextSubscribe]_vars

(***************************************************************************)
(* Claims about subscribeAddresses.                                        *)
(***************************************************************************)
\* C14: best-effort subscription.  subscribeAddresses sends no subscribe
\* request unless every address is valid; once the request is sent, a server
\* rejection (a non-success response or a failed request) is only logged and
\* the call completes without raising an error.
C14_BestEffortSubscription ==
  /\ ("request" \in DOMAIN subscription) =>
       \A k \in 1..Len(subscription.addresses) : subscription.addresses[k] \in ValidRippleAddresses
  /\ ("request" \in DOMAIN subscription /\ subscription.pc \in {"returned", "threw"}) =>
       /\ subscription.pc = "returned"
       /\ Len(subscription.log) = 1

\* C19: pagination terminates.  For a finite history and a server that answers
\* a cursor request with the transactions from the cursor onward,
\* retrieveBalanceActivities eventually settles.  The first request carries
\* {minLedgerVersion: from, maxLedgerVersion: to} and no cursor; every later
\* request is made only after a page of exactly 10 transactions whose last
\* one has ledgerVersion <= to, and carries that last transaction as startTx.
C19_PaginationTerminates ==
  /\ <>scanSettled
  /\ [][ (requests' # requests) =>
           /\ Len(requests') = Len(requests) + 1
           /\ SubSeq(requests', 1, Len(requests)) = requests
           /\ LET request == requests'[Len(requests')]
              IN  IF Len(requests) = 0
                    THEN /\ "startTx" \notin DOMAIN request
                         /\ request.minLedgerVersion = scan.from
                         /\ request.maxLedgerVersion = scan.to
                    ELSE /\ Len(scan.transactions) = 10
                         /\ scan.transactions[10].outcome.ledgerVersion <= scan.to
                         /\ "minLedgerVersion" \notin DOMAIN request
                         /\ "maxLedgerVersion" \notin DOMAIN request
                         /\ request.startTx = scan.transactions[10] ]_vars

\* C19 witness: the scan returned after two cursor requests, the last page
\* being a short one
C19_Witness ==
  /\ scan.pc = "done"
  /\ Len(requests) = 3
  /\ "startTx" \in DOMAIN requests[2]
  /\ "startTx" \in DOMAIN requests[3]
  /\ Len(scan.transactions) < 10

\* The transactions of the server's history that the scan of the address owes
\* the sink: payments within [from, to] that have the address as source or
\* destination and a native-asset balance change for it
owedToSink(k) ==
  LET tx == rippleServer.history[k]
  IN  IF tx.type # "payment" THEN FALSE
      ELSE /\ tx.outcome.ledgerVersion >= scan.from
           /\ tx.outcome.ledgerVersion <= scan.to
           /\ scan.address \in {tx.specification.source.address, tx.specification.destination.address}
           /\ scan.address \in DOMAIN tx.outcome.balanceChanges
           /\ \E c \in 1..Len(tx.outcome.balanceChanges[scan.address]) :
                tx.outcome.balanceChanges[scan.address][c].currency = "XRP"

\* C20: scan coverage.  Every activity passed to the sink has its ledgerVersion
\* within the effective [from, to], and once the scan has returned, every
\* payment of the server's history within [from, to] that has the address as
\* source or destination and a native-asset balance change for it has been
\* passed to the sink exactly once.
C20_ScanCoverage ==
  /\ \A k \in 1..Len(sink) :
       /\ sink[k].confirmationNumber >= scan.from
       /\ sink[k].confirmationNumber <= scan.to
  /\ scan.pc = "done" =>
       \A k \in 1..Len(rippleServer.history) :
         owedToSink(k) =>
           Cardinality({j \in 1..Len(sink) : sink[j].externalId = rippleServer.history[k].id}) = 1

\* C20 witness: a returned scan whose window ends inside the history, on the
\* edge of a page: the last page was a full one, asked from a cursor, and the
\* sink holds the payments of the window
C20_Witness ==
  /\ scan.pc = "done"
  /\ Len(requests) >= 2
  /\ Len(scan.transactions) = 10
  /\ Len(sink) > 0
  /\ \E k \in 1..Len(rippleServer.history) : owedToSink(k)
  /\ \E k \in 1..Len(rippleServer.history) : rippleServer.history[k].outcome.ledgerVersion > scan.to
  /\ \E k \in 1..Len(rippleServer.history) :
       /\ rippleServer.history[k].outcome.ledgerVersion <= scan.to
       /\ rippleServer.history[k].type = "payment"
       /\ ~owedToSink(k)

(***************************************************************************)
(* RippleBalanceMonitor.onBalanceActivity (lines 117-126).  The connection *)
(* emits the server's 'transaction' events one after the other; each event *)
(* starts a run of the async handler, which goes on by itself up to the    *)
(* getLedger it awaits inside paymentToBalanceActivities (line 209) and    *)
(* resumes when the server answers that lookup.  The answers of different  *)
(* runs arrive in any order.                                               *)
(***************************************************************************)
MaxEvents == 2     \* most 'transaction' events the server pushes

\* lines 119-120, 197-205: where the handler of an event stands when it first
\* gives up control: it has nothing to do for an event that is not a payment
\* or does not concern tx.address, and awaits the ledger otherwise
handlerStart(tx) ==
  IF tx.type # "payment" THEN "settled"
  ELSE IF activityType(tx.address, tx) = NullString THEN "settled"
  ELSE "awaitLedger"

\* lines 120-123, 209-233: the handler resumes with the ledger: the activity,
\* if there is one, is passed to callbackFn
handlerResume(l, k, ledger) ==
  LET tx == l.events[k]
      activity == paymentToBalanceActivities(tx.address, tx, ledger)
  IN  [l EXCEPT !.handlers[k] = "settled",
                !.delivered = IF isNull(activity) THEN @ ELSE Append(@, activity)]

\* The events of a subscribed account rA, in the order the server pushes them
EventKinds == {"out", "in", "self", "rippling", "token", "unchanged", "order"}

EventOf(kind, k) == withField(TxOfKind(kind, k, 99 + k, 0), "address", "rA")

EventLists == {[k \in 1..Len(kinds) |-> EventOf(kinds[k], k)] : kinds \in SeqsUpTo(EventKinds, MaxEvents)}

\* line 118: the handler is registered, no event has come yet
InitLive ==
  /\ monitor \in Monitors
  /\ live \in {[events |-> e, pushed |-> 0, handlers |-> [k \in 1..Len(e) |-> "unpushed"], delivered |-> <<>>] :
                 e \in EventLists}
  /\ IdleBuild
  /\ IdleBroadcast
  /\ IdleScan
  /\ IdleSubscribe

\* lines 118-120: the connection emits the next event and its handler runs up
\* to its first await
TransactionEvent ==
  /\ live.pushed < Len(live.events)
  /\ live' = [live EXCEPT !.pushed = @ + 1,
                          !.handlers[live.pushed + 1] = handlerStart(live.events[live.pushed + 1])]
  /\ UNCHANGED <<buildVars, broadcastVars, scanVars, subscribeVars, monitorVars>>

\* line 209: the server answers the ledger lookup of one of the waiting
\* handlers, which runs to its end
GetLedgerResolves ==
  /\ \E k \in 1..Len(live.events) :
       /\ live.handlers[k] = "awaitLedger"
       /\ live' = handlerResume(live, k, getLedger(rippleServer, live.events[k].outcome.ledgerVersion))
  /\ UNCHANGED <<buildVars, broadcastVars, scanVars, subscribeVars, monitorVars>>

\* line 209: the ledger lookup of one of the waiting handlers fails, and so
\* does the handler
GetLedgerRejects ==
  /\ \E k \in 1..Len(live.events) :
       /\ live.handlers[k] = "awaitLedger"
       /\ live' = [live EXCEPT !.handlers[k] = "rejected"]
  /\ UNCHANGED <<buildVars, broadcastVars, scanVars, subscribeVars, monitorVars>>

NextLive == TransactionEvent \/ GetLedgerResolves \/ GetLedgerRejects

SpecLive == InitLive /\ [][NextLive]_vars

(***************************************************************************)
(* Claims about onBalanceActivity.                                         *)
(***************************************************************************)
\* The place of an activity's event in the order the server pushed the events
pushOrder(activity) == CHOOSE k \in 1..Len(live.events) : live.events[k].id = activity.externalId

\* C21: live events keep their order.  For two payment 'transaction' events
\* pushed one after the other, callbackFn receives the first event's activity
\* before the second's, whatever the order in which the ledger lookups of the
\* two handlers are answered.
C21_LiveEventsKeepOrder ==
  \A a, b \in 1..Len(live.delivered) :
    a < b => pushOrder(live.delivered[a]) < pushOrder(live.delivered[b])

(***************************************************************************)
(* createTransaction, createMultiOutputTransaction and                     *)
(* createSweepTransaction (lines 496-602).  A payport argument is a record *)
(* [typeof, index, address]: typeof is "number" for an account index,      *)
(* "string" for an address string, "object" for a Payport object and       *)
(* "boolean" for a value that is none of these, and the field that does    *)
(* not apply is 0 or "".  The call is the record created: while it waits,  *)
(* pc names the await it waits at, and a call that has thrown is the       *)
(* Failure it rejected with.                                               *)
(***************************************************************************)
\* line 68, abstract: the address of an account of the wallet
AccountAddresses == <<"C", "A">>
getAddress(index) == AccountAddresses[index + 1]

\* lines 96-112
resolvePayport(payport) ==
  IF payport.typeof = "number" THEN [error |-> "none", address |-> getAddress(payport.index)]
  ELSE IF payport.typeof = "string" THEN
    IF ~isValidAddress(payport.address) THEN [error |-> "InvalidAddress", address |-> ""]
    ELSE [error |-> "none", address |-> payport.address]
  ELSE IF payport.typeof = "object" THEN
    IF ~isValidAddress(payport.address) THEN [error |-> "InvalidPayportAddress", address |-> ""]
    ELSE [error |-> "none", address |-> payport.address]
  ELSE [error |-> "InvalidPayport", address |-> ""]

\* lines 137-146: the UTXOs of the server's answer, whose value is a string
\* of digits in base units, as UtxoInfo records.  A height string is kept as
\* the number it spells.
utxoInfoOf(utxosRaw) ==
  [i \in 1..Len(utxosRaw) |->
     [f \in DOMAIN utxosRaw[i] \cup {"satoshis"} |->
        IF f = "satoshis" THEN parseInt(utxosRaw[i].value)
        ELSE IF f = "value" THEN toMainDenominationString(digitsToNumber(utxosRaw[i].value))
        ELSE utxosRaw[i][f]]]

\* utils.sumUtxoValue: the total value of the UTXOs, the unconfirmed ones
\* included on demand, in the main denomination
sumUtxoValue(utxos, includeUnconfirmed) ==
  toMainDenominationString(
    SumSeq([i \in 1..Len(utxos) |->
              IF includeUnconfirmed \/ isConfirmedUtxo(utxos[i])
                THEN toBaseDenominationNumber(utxos[i].value) ELSE 0]))

\* lines 88-90
isSweepableBalance(balance) == toBaseDenominationNumber(balance) > networkMinRelayFee

\* BitcoinishPaymentsUtils.resolveFeeOption, for options that name a fee rate
resolveFeeOption(options) ==
  [targetFeeLevel |-> "custom", targetFeeRate |-> options.feeRate,
   targetFeeRateType |-> options.feeRateType]

\* line 79, abstract: the unsigned transaction in hex.  The stand-in keeps what
\* an encoding depends on: the inputs and the outputs of the plan, in order.
serializePaymentTx(tx, fromIndex) == [hexOf |-> [inputs |-> tx.inputs, outputs |-> tx.outputs]]

\* utils.sha256FromHex
sha256FromHex(hex) == [sha256Of |-> hex]

\* line 510, assertType(t.array(PayportOutput), to) of @faast/ts-common: the
\* outputs pass iff the payport of each is an account index, an address string
\* or a Payport record; the call throws a TypeError when they do not
assertType(to) ==
  \A i \in 1..Len(to) : to[i].payport.typeof \in {"number", "string", "object"}

\* lines 505-514: createMultiOutputTransaction up to its first await, which is
\* getUtxos when the options carry no UTXOs and resolvePayport(from) otherwise.
\* Outputs that fail the type assertion end the call before any request.
createMultiOutputTransaction(from, to, options) ==
  IF ~assertType(to) THEN Failure("TypeError")
  ELSE IF isUndefined(options, "utxos")
    THEN [status |-> "pending", pc |-> "getUtxos", method |-> "createMultiOutputTransaction",
          from |-> from, to |-> to, options |-> options]
    ELSE [status |-> "pending", pc |-> "resolvePayport", from |-> from, to |-> to,
          options |-> options, unusedUtxos |-> options.utxos]

\* lines 496-503
createTransaction(from, to, amount, options) ==
  createMultiOutputTransaction(from, <<[payport |-> to, amount |-> amount]>>, options)

\* lines 587-601: createSweepTransaction once it holds the available UTXOs
sweepAvailableUtxos(from, to, options, availableUtxos) ==
  IF Len(availableUtxos) = 0 THEN Failure("NoUtxosToSweep")
  ELSE
    LET useUnconfirmedUtxos == IF isUndefined(options, "useUnconfirmedUtxos") THEN TRUE
                               ELSE options.useUnconfirmedUtxos
        outputAmount == sumUtxoValue(availableUtxos, useUnconfirmedUtxos)
        updatedOptions ==
          withField(withField(withField(options, "useUnconfirmedUtxos", useUnconfirmedUtxos),
                              "utxos", availableUtxos), "useAllUtxos", TRUE)
    IN  IF ~isSweepableBalance(outputAmount) THEN Failure("TooLowToSweep")
        ELSE createTransaction(from, to, outputAmount, updatedOptions)

\* lines 576-586: createSweepTransaction up to its first await
createSweepTransaction(from, to, options) ==
  IF isUndefined(options, "utxos")
    THEN [status |-> "pending", pc |-> "getUtxos", method |-> "createSweepTransaction",
          from |-> from, toPayport |-> to, options |-> options]
    ELSE sweepAvailableUtxos(from, to, options, options.utxos)

\* lines 518-523: Promise.all resolves once every output's payport has
\* resolved, with the desired outputs in the order of to, and the call goes
\* on to resolveFeeOption; until then the call waits
promiseAllOutputs(call) ==
  IF \E i \in 1..Len(call.to) : call.outputPayports[i] # "resolved" THEN call
  ELSE withField(withField(call, "desiredOutputs",
                           [i \in 1..Len(call.to) |->
                              [address |-> resolvePayport(call.to[i].payport).address,
                               value |-> call.to[i].amount]]),
                 "pc", "resolveFeeOption")

\* lines 526-533: the argument of the buildPaymentTx call.  An option that is
\* undefined is passed on as undefined.
buildParamsOf(call, feeOption) ==
  LET required == [unusedUtxos |-> call.unusedUtxos,
                   desiredOutputs |-> call.desiredOutputs,
                   changeAddress |-> call.fromAddress,
                   desiredFeeRate |-> [feeRate |-> feeOption.targetFeeRate,
                                       feeRateType |-> feeOption.targetFeeRateType]]
      flags == {"useAllUtxos", "useUnconfirmedUtxos"} \cap DOMAIN call.options
  IN  [f \in DOMAIN required \cup flags |->
         IF f \in flags THEN call.options[f] ELSE required[f]]

\* lines 538-566: the unsigned transaction that is returned
unsignedTransactionOf(call, tx) ==
  LET single == Len(tx.externalOutputs) = 1
  IN  [status |-> "unsigned",
       id |-> NullString,
       fromIndex |-> call.from,
       fromAddress |-> call.fromAddress,
       fromExtraId |-> NullString,
       toIndex |-> IF single /\ call.to[1].payport.typeof = "number"
                     THEN [number |-> call.to[1].payport.index] ELSE Null,
       toAddress |-> IF single THEN tx.externalOutputs[1].address ELSE "multiout",
       toExtraId |-> NullString,
       amount |-> tx.externalOutputTotal,
       targetFeeLevel |-> call.feeOption.targetFeeLevel,
       targetFeeRate |-> call.feeOption.targetFeeRate,
       targetFeeRateType |-> call.feeOption.targetFeeRateType,
       fee |-> tx.fee,
       sequenceNumber |-> NullString,
       inputUtxos |-> tx.inputs,
       externalOutputs |-> tx.externalOutputs,
       data |-> tx]

(***************************************************************************)
(* The inputs the create specification draws from.                         *)
(***************************************************************************)
\* What the server holds for the wallet's address: nothing, a confirmed pair,
\* a confirmed and an unconfirmed UTXO, a single UTXO below the relay minimum
ServerUtxoLists ==
  { <<>>,
    <<[txid |-> 1, vout |-> 0, value |-> String(10000), height |-> 5],
      [txid |-> 2, vout |-> 0, value |-> String(50000), height |-> 5]>>,
    <<[txid |-> 1, vout |-> 0, value |-> String(30000), height |-> 5],
      [txid |-> 2, vout |-> 0, value |-> String(20000)]>>,
    <<[txid |-> 1, vout |-> 0, value |-> String(900), height |-> 5]>> }

CreatePayports ==
  { [typeof |-> "string", index |-> 0, address |-> "A"],
    [typeof |-> "string", index |-> 0, address |-> "X"],
    [typeof |-> "number", index |-> 1, address |-> ""],
    [typeof |-> "object", index |-> 0, address |-> "B"],
    [typeof |-> "object", index |-> 0, address |-> "Y"],
    [typeof |-> "boolean", index |-> 0, address |-> ""] }

CreateAmounts == { Dec(8, 5), Dec(5, 4) }

CreateOptions ==
  LET rate == [feeRate |-> Dec(10, 0), feeRateType |-> "BasePerWeight"]
      utxos == {<<>>} \cup {[utxos |-> utxoInfoOf(raw)] : raw \in ServerUtxoLists}
      flags == {<<>>, [useUnconfirmedUtxos |-> FALSE], [useUnconfirmedUtxos |-> TRUE]}
  IN  {rate @@ u @@ f : u \in utxos, f \in flags}

CreateCalls ==
  {createTransaction(0, to, amount, options) :
     to \in CreatePayports, amount \in CreateAmounts, options \in CreateOptions}
  \cup {createMultiOutputTransaction(0, to, options) :
          to \in SeqsUpTo({[payport |-> pp, amount |-> Dec(8, 5)] : pp \in CreatePayports}, 2),
          options \in CreateOptions}
  \cup {createSweepTransaction(0, to, options) : to \in CreatePayports, options \in CreateOptions}

(***************************************************************************)
(* SpecCreate: one call of a create method on a default instance.          *)
(***************************************************************************)
InitCreate ==
  /\ payments = ScenarioConfig(1)
  /\ params = Idle
  /\ paymentTx = Idle
  /\ created \in CreateCalls
  /\ IdleBroadcast
  /\ IdleScan
  /\ IdleSubscribe
  /\ IdleLive
  /\ IdleMonitor

\* lines 135-147: getUtxos resolves the payport, asks the server and converts
\* the answer; createMultiOutputTransaction goes on to resolvePayport(from),
\* createSweepTransaction to its tests and to createTransaction, which throws
\* when the payport fails the type assertion of line 510
GetUtxosResolves ==
  /\ created.status = "pending"
  /\ created.pc = "getUtxos"
  /\ \E utxosRaw \in ServerUtxoLists :
       created' = IF created.method = "createSweepTransaction"
                    THEN sweepAvailableUtxos(created.from, created.toPayport, created.options,
                                             utxoInfoOf(utxosRaw))
                    ELSE [status |-> "pending", pc |-> "resolvePayport", from |-> created.from,
                          to |-> created.to, options |-> created.options,
                          unusedUtxos |-> utxoInfoOf(utxosRaw)]
  /\ UNCHANGED <<payments, params, paymentTx, broadcastVars, scanVars, subscribeVars, liveVars, monitorVars>>

\* line 136: the server's request fails, and so does the call
GetUtxosRejects ==
  /\ created.status = "pending"
  /\ created.pc = "getUtxos"
  /\ created' = Failure("ServerError")
  /\ UNCHANGED <<payments, params, paymentTx, broadcastVars, scanVars, subscribeVars, liveVars, monitorVars>>

\* While the call waits before buildPaymentTx, the caller sets a flag of the
\* options object it passed.  The object is the caller's own until
\* createSweepTransaction copies it (lines 595-600); the copy is the one that
\* sets useAllUtxos.
CreateOptionsChanged ==
  /\ created.status = "pending"
  /\ created.pc \in {"getUtxos", "resolvePayport", "resolveOutputs", "resolveFeeOption"}
  /\ isUndefined(created.options, "useAllUtxos")
  /\ \E flag \in BOOLEAN :
       /\ IF isUndefined(created.options, "useUnconfirmedUtxos") THEN TRUE
          ELSE created.options.useUnconfirmedUtxos # flag
       /\ created' = withField(created, "options", withField(created.options, "useUnconfirmedUtxos", flag))
  /\ UNCHANGED <<payments, params, paymentTx, broadcastVars, scanVars, subscribeVars, liveVars, monitorVars>>

\* lines 516-521: resolvePayport(from) answers with the account's address and
\* to.map starts resolvePayport for every output.  An output whose
\* resolvePayport throws before any await (line 110) rejects Promise.all
\* before another output is answered; otherwise the outputs are pending
\* until their answers, and with no output Promise.all resolves at once.
FromPayportResolved ==
  /\ created.status = "pending"
  /\ created.pc = "resolvePayport"
  /\ created' = IF \E i \in 1..Len(created.to) :
                       resolvePayport(created.to[i].payport).error = "InvalidPayport"
                  THEN Failure("InvalidPayport")
                  ELSE promiseAllOutputs(
                         withField(withField(withField(created, "fromAddress", getAddress(created.from)),
                                             "outputPayports", [i \in 1..Len(created.to) |-> "pending"]),
                                   "pc", "resolveOutputs"))
  /\ UNCHANGED <<payments, params, paymentTx, broadcastVars, scanVars, subscribeVars, liveVars, monitorVars>>

\* lines 96-109 and 518-521: resolvePayport of one of the pending outputs
\* settles, in whatever order the answers of isValidAddress come.  The first
\* one that rejects rejects Promise.all and the call; one that resolves
\* leaves the call waiting for the others, and the last one lets it go on.
OutputPayportSettles ==
  /\ created.status = "pending"
  /\ created.pc = "resolveOutputs"
  /\ \E i \in 1..Len(created.to) :
       /\ created.outputPayports[i] = "pending"
       /\ created' = IF resolvePayport(created.to[i].payport).error # "none"
                        THEN Failure(resolvePayport(created.to[i].payport).error)
                        ELSE promiseAllOutputs([created EXCEPT !.outputPayports[i] = "resolved"])
  /\ UNCHANGED <<payments, params, paymentTx, broadcastVars, scanVars, subscribeVars, liveVars, monitorVars>>

\* lines 523-533: resolveFeeOption answers and buildPaymentTx is called, which
\* runs to its first await
FeeOptionResolved ==
  /\ created.status = "pending"
  /\ created.pc = "resolveFeeOption"
  /\ LET feeOption == resolveFeeOption(created.options)
     IN  /\ created' = withField(withField(created, "feeOption", feeOption), "pc", "buildPaymentTx")
         /\ params' = buildParamsOf(created, feeOption)
         /\ paymentTx' = awaitNextAddress(created.desiredOutputs, <<>>)
  /\ UNCHANGED <<payments, broadcastVars, scanVars, subscribeVars, liveVars, monitorVars>>

\* line 526: buildPaymentTx has thrown, and so does the call
BuildPaymentTxRejected ==
  /\ created.status = "pending"
  /\ created.pc = "buildPaymentTx"
  /\ paymentTx.status = "error"
  /\ created' = Failure(paymentTx.error)
  /\ UNCHANGED <<payments, params, paymentTx, broadcastVars, scanVars, subscribeVars, liveVars, monitorVars>>

\* lines 526-534: buildPaymentTx has returned its plan and serializePaymentTx
\* is called
PaymentTxBuilt ==
  /\ created.status = "pending"
  /\ created.pc = "buildPaymentTx"
  /\ paymentTx.status = "plan"
  /\ created' = withField(created, "pc", "serializePaymentTx")
  /\ UNCHANGED <<payments, params, paymentTx, broadcastVars, scanVars, subscribeVars, liveVars, monitorVars>>

\* lines 534-566: serializePaymentTx answers; the plan gets its rawHex and its
\* rawHash and the unsigned transaction is returned
PaymentTxSerialized ==
  /\ created.status = "pending"
  /\ created.pc = "serializePaymentTx"
  /\ LET unsignedTxHex == serializePaymentTx(paymentTx, created.from)
         data == [paymentTx EXCEPT !.rawHex = unsignedTxHex,
                                   !.rawHash = sha256FromHex(unsignedTxHex)]
     IN  /\ paymentTx' = data
         /\ created' = unsignedTransactionOf(created, data)
  /\ UNCHANGED <<payments, params, broadcastVars, scanVars, subscribeVars, liveVars, monitorVars>>

NextCreate ==
  \/ GetUtxosResolves
  \/ GetUtxosRejects
  \/ CreateOptionsChanged
  \/ FromPayportResolved
  \/ OutputPayportSettles
  \/ FeeOptionResolved
  \/ BuildPaymentTxRejected
  \/ PaymentTxBuilt
  \/ PaymentTxSerialized
  \/ NextBuild

SpecCreate == InitCreate /\ [][NextCreate]_vars

====
